---- MODULE Spec2Model ----
(***************************************************************************)
(* Model of cu.music.cuesheet: conversion of a cdrdao table-of-contents    *)
(* file into a cue sheet.  Text is modelled as text: lines, records and    *)
(* timecodes are strings and every string operation of the source is       *)
(* computed character by character.                                        *)
(***************************************************************************)
EXTENDS Integers, Sequences, FiniteSets, TLC

VARIABLES
    toc,               \* the lines of the toc file, as file iteration yields them
    pc,                \* position of toc_to_cuesheet: read, make, loop, done, failed
    parts,             \* value returned by read_cdrdao_toc
    tracks,            \* make_cuesheet: the tokenised groups
    track,             \* make_cuesheet: index of the group the loop handles next
    silence_offset,    \* make_cuesheet: accumulated SILENCE, a timecode string
    track_1_is_audio,  \* make_cuesheet: type of tracks[1] is AUDIO
    cuesheet,          \* make_cuesheet: the lines emitted so far
    result,            \* the text toc_to_cuesheet returned ("" before it returns)
    err,               \* the exception that ended the conversion, NoErr if none
    stdout,            \* the texts written to sys.stdout, one per print call
    arg_x,             \* offset_sum, to_fracs: the argument x
    arg_y,             \* offset_sum: the argument y
    parsed,            \* what to_fracs(x) returned or raised
    formatted,         \* the f-string of offset_sum applied to the frame count of x
    summed,            \* what offset_sum(x, y) returned or raised
    args_compare,      \* cuesheet.main: the value of --compare
    files,             \* the directory: the inode of every existing path
    disk,              \* the inodes: data and the processes that wrote it
    exit_status,       \* the status the interpreter exits with, -1 while it runs
    wr,                \* the processes inside tempfile_to_update, by process
    rd,                \* a process that opens and reads the target
    rip,               \* rip.main: position, calls made and steps done of rip_one_disc
    db,                \* the SQLite database of the cache: its two tables
    cache,             \* the Cache object of a long-lived process: its inclusion maps
    last_call,         \* the last call of Cache.put or Cache.get and its outcome
    puts               \* the last completed put of every (type, id)

\* the variables of a direct call of the timecode functions
tvars == <<arg_x, arg_y, parsed, formatted, summed>>

\* the variables of the command line of cu.music.cuesheet
mvars == <<args_compare, exit_status>>

\* the file system and the processes of cu.util.file that use it
fvars == <<files, disk, wr, rd>>

\* the variables outside toc_to_cuesheet and the timecode functions
\* the variables of the batch driver cu.music.rip
rvars == <<rip>>

\* the variables of the object cache cu.music.cache
kvars == <<db, cache, last_call, puts>>

env == <<mvars, fvars, rvars, kvars>>

vars == <<toc, pc, parts, tracks, track, silence_offset, track_1_is_audio,
          cuesheet, result, err, stdout, tvars, env>>

-----------------------------------------------------------------------------
(* Bounds of the explored inputs.                                          *)

MaxFoldLines == 4
MaxRecs == 3
MaxTracks == 3
MaxBlockLines == 2

-----------------------------------------------------------------------------
(* Python string and integer primitives used by the source.                *)

Whitespace == {" ", "\t", "\n"}

Digits == {"0", "1", "2", "3", "4", "5", "6", "7", "8", "9"}

RECURSIVE count(_, _)
count(s, c) ==
    IF s = "" THEN 0
    ELSE (IF Head(s) = c THEN 1 ELSE 0) + count(Tail(s), c)

RECURSIVE lstrip(_)
lstrip(s) ==
    IF s # "" /\ Head(s) \in Whitespace THEN lstrip(Tail(s)) ELSE s

RECURSIVE rstrip(_)
rstrip(s) ==
    IF s # "" /\ SubSeq(s, Len(s), Len(s)) \in Whitespace
    THEN rstrip(SubSeq(s, 1, Len(s) - 1))
    ELSE s

strip(s) == lstrip(rstrip(s))

RECURSIVE rstrip_newline(_)
rstrip_newline(s) ==
    IF s # "" /\ SubSeq(s, Len(s), Len(s)) = "\n"
    THEN rstrip_newline(SubSeq(s, 1, Len(s) - 1))
    ELSE s

startswith(s, p) == Len(s) >= Len(p) /\ SubSeq(s, 1, Len(p)) = p

endswith(s, p) == Len(s) >= Len(p) /\ SubSeq(s, Len(s) - Len(p) + 1, Len(s)) = p

RECURSIVE wordlen(_)
wordlen(s) ==
    IF s = "" \/ Head(s) \in Whitespace THEN 0 ELSE 1 + wordlen(Tail(s))

\* str.split() with no argument: the maximal runs of non-whitespace
RECURSIVE split(_)
split(s) ==
    LET t == lstrip(s)
        n == wordlen(t)
    IN  IF t = "" THEN << >>
        ELSE <<SubSeq(t, 1, n)>> \o split(SubSeq(t, n + 1, Len(t)))

RECURSIVE fieldlen(_, _)
fieldlen(s, c) ==
    IF s = "" \/ Head(s) = c THEN 0 ELSE 1 + fieldlen(Tail(s), c)

\* str.split(c) for a one-character separator: always at least one field
RECURSIVE split_sep(_, _)
split_sep(s, c) ==
    LET n == fieldlen(s, c)
    IN  IF n = Len(s) THEN <<s>>
        ELSE <<SubSeq(s, 1, n)>> \o split_sep(SubSeq(s, n + 2, Len(s)), c)

RECURSIVE join(_, _)
join(sep, xs) ==
    IF xs = << >> THEN ""
    ELSE IF Len(xs) = 1 THEN xs[1]
    ELSE xs[1] \o sep \o join(sep, Tail(xs))

DigitVal(c) ==
    CASE c = "0" -> 0 [] c = "1" -> 1 [] c = "2" -> 2 [] c = "3" -> 3
      [] c = "4" -> 4 [] c = "5" -> 5 [] c = "6" -> 6 [] c = "7" -> 7
      [] c = "8" -> 8 [] c = "9" -> 9

RECURSIVE all_digits(_)
all_digits(s) == s = "" \/ (Head(s) \in Digits /\ all_digits(Tail(s)))

RECURSIVE digits_val(_, _)
digits_val(s, acc) ==
    IF s = "" THEN acc ELSE digits_val(Tail(s), 10 * acc + DigitVal(Head(s)))

int_body(s) == IF s # "" /\ Head(s) \in {"+", "-"} THEN Tail(s) ELSE s

\* int(s) succeeds on an optional sign followed by one or more digits
int_ok(s) == int_body(s) # "" /\ all_digits(int_body(s))

int(s) ==
    IF s # "" /\ Head(s) = "-" THEN 0 - digits_val(int_body(s), 0)
    ELSE digits_val(int_body(s), 0)

fmt02d_unpadded(n) == ToString(n)

\* format spec 02d (and %02d): at least two characters, zero-filled
fmt02d(n) == IF 0 <= n /\ n < 10 THEN "0" \o ToString(n) ELSE ToString(n)

-----------------------------------------------------------------------------
(* Exceptions.  kind is the Python exception class, at the raising         *)
(* expression, key the field looked up (if any), track the group index.    *)

NoErr == [kind |-> "none", at |-> "", key |-> "", track |-> -1]

Raise(kind, at, key) == [kind |-> kind, at |-> at, key |-> key, track |-> -1]

Ok(v) == [ok |-> TRUE, none |-> FALSE, val |-> v, err |-> NoErr]

None == [ok |-> TRUE, none |-> TRUE, val |-> "", err |-> NoErr]

Fail(e) == [ok |-> FALSE, none |-> FALSE, val |-> "", err |-> e]

\* the failures the source raises, by the names the design gives them
UnbalancedBraces(e) ==
    e.kind = "AssertionError" /\ e.at \in {"brace_count >= 0", "not parts"}

AmbiguousField(e, key) ==
    e.kind = "AssertionError" /\ e.at = "len(matches) < 2" /\ e.key = key

MissingField(e, key) ==
    e.kind = "AssertionError" /\ e.at = "missing_ok" /\ e.key = key

UnknownTrackType(e) == e.kind = "AssertionError" /\ e.at = "False"

MalformedTimecode(e) ==
    e.kind = "ValueError"
    /\ e.at \in {"minutes, seconds, fracs = x.split(':')", "int()"}

FieldKeys == {"CATALOG", "FILE", "START", "SILENCE", "ISRC"}

InTaxonomy(e) ==
    \/ UnbalancedBraces(e)
    \/ \E key \in FieldKeys : AmbiguousField(e, key)
    \/ \E key \in FieldKeys : MissingField(e, key)
    \/ UnknownTrackType(e)
    \/ MalformedTimecode(e)

-----------------------------------------------------------------------------
(* read_cdrdao_toc                                                          *)

net_braces_open_only(s) == count(s, "{")

net_braces(s) == count(s, "{") - count(s, "}")

RECURSIVE read_loop(_, _, _, _)
read_loop(f, joined_parts, parts_, brace_count) ==
    IF f = << >>
    THEN IF parts_ # << >>
         THEN Fail(Raise("AssertionError", "not parts", ""))
         ELSE Ok(joined_parts)
    ELSE
      LET line == rstrip_newline(Head(f))
      IN  IF startswith(lstrip(line), "//") \/ strip(line) = ""
          THEN read_loop(Tail(f), joined_parts, parts_, brace_count)
          ELSE
            LET parts1 == Append(parts_, line)
                bc == brace_count + net_braces(line)
            IN  IF ~(bc >= 0)
                THEN Fail(Raise("AssertionError", "brace_count >= 0", ""))
                ELSE IF bc = 0
                THEN read_loop(Tail(f), Append(joined_parts, join("\n", parts1)),
                               << >>, bc)
                ELSE read_loop(Tail(f), joined_parts, parts1, bc)

read_cdrdao_toc(f) ==
    LET r == read_loop(f, << >>, << >>, 0)
    IN  IF r.ok THEN Ok([i \in 1..Len(r.val) |-> lstrip(r.val[i])]) ELSE r

-----------------------------------------------------------------------------
(* split_by_track and the field extractors                                 *)

RECURSIVE split_loop(_, _, _)
split_loop(ps, tracks_, group) ==
    IF ps = << >>
    THEN IF group # << >> THEN Append(tracks_, group) ELSE tracks_
    ELSE IF startswith(Head(ps), "TRACK ") /\ group # << >>
         THEN split_loop(Tail(ps), Append(tracks_, group), <<Head(ps)>>)
         ELSE split_loop(Tail(ps), tracks_, Append(group, Head(ps)))

split_by_track_flushing(ps) ==
    IF ps # << >> /\ startswith(Head(ps), "TRACK ")
    THEN <<<< >>>> \o split_loop(ps, << >>, << >>)
    ELSE split_loop(ps, << >>, << >>)

split_by_track(ps) == split_loop(ps, << >>, << >>)

undoublequote(s) ==
    IF ~startswith(s, "\"")
    THEN Fail(Raise("AssertionError", "s.startswith('\"')", ""))
    ELSE IF ~endswith(s, "\"")
    THEN Fail(Raise("AssertionError", "s.endswith('\"')", ""))
    ELSE LET s1 == SubSeq(s, 2, Len(s) - 1)
         IN  IF count(s1, "\"") # 0
             THEN Fail(Raise("AssertionError", "'\"' not in s", ""))
             ELSE Ok(s1)

\* [x[1:] for x in data if x[0] == key]
RECURSIVE matching(_, _)
matching_any_token(data, key) ==
    LET mentions(x) == \E j \in 1..Len(x) : x[j] = key
        hits == SelectSeq(data, mentions)
    IN  [i \in 1..Len(hits) |-> Tail(hits[i])]

matching(data, key) ==
    IF data = << >> THEN << >>
    ELSE (IF Head(data)[1] = key THEN <<Tail(Head(data))>> ELSE << >>)
         \o matching(Tail(data), key)

\* the default process, lambda x: x[0]
first_word(x) ==
    IF x = << >> THEN Fail(Raise("IndexError", "x[0]", "")) ELSE Ok(x[1])

\* lambda x: undoublequote(x[0])
unquote_first_word(x) ==
    IF x = << >> THEN Fail(Raise("IndexError", "x[0]", ""))
    ELSE undoublequote(x[1])

\* lambda x: x[1:3]
words_1_3(x) == Ok(SubSeq(x, 2, IF Len(x) < 3 THEN Len(x) ELSE 3))

\* call of the function object passed as process
call(process, x) ==
    CASE process = "x[0]" -> first_word(x)
      [] process = "undoublequote(x[0])" -> unquote_first_word(x)
      [] process = "x[1:3]" -> words_1_3(x)

only_matching_word_first(data, key, process, missing_ok) ==
    LET matches == matching(data, key)
    IN  IF matches # << >> THEN call(process, matches[1])
        ELSE IF ~missing_ok
        THEN Fail(Raise("AssertionError", "missing_ok", key))
        ELSE None

only_matching_word(data, key, process, missing_ok) ==
    LET matches == matching(data, key)
    IN  IF ~(Len(matches) < 2)
        THEN Fail(Raise("AssertionError", "len(matches) < 2", key))
        ELSE IF matches # << >> THEN call(process, matches[1])
        ELSE IF ~missing_ok
        THEN Fail(Raise("AssertionError", "missing_ok", key))
        ELSE None

get_catalog(data) == only_matching_word(data, "CATALOG", "undoublequote(x[0])", TRUE)

get_track_file_default(data) ==
    LET r == only_matching_word(data, "FILE", "x[1:3]", TRUE)
    IN  IF r.ok /\ r.none THEN Ok(<<"0", "0">>) ELSE r

get_track_file(data) == only_matching_word(data, "FILE", "x[1:3]", FALSE)

get_start_pregap(data) == only_matching_word(data, "PREGAP", "x[0]", TRUE)

get_start(data) == only_matching_word(data, "START", "x[0]", TRUE)

get_silence(data) == only_matching_word(data, "SILENCE", "x[0]", TRUE)

get_isrc(data) == only_matching_word(data, "ISRC", "undoublequote(x[0])", TRUE)

has_copy_any_token(data) ==
    \E i \in 1..Len(data) : \E j \in 1..Len(data[i]) : data[i][j] = "COPY"

has_copy(data) == \E i \in 1..Len(data) : data[i] = <<"COPY">>

track_type(data) ==
    LET words == data[1]
    IN  IF words[1] # "TRACK"
        THEN Fail(Raise("AssertionError", "words[0] == 'TRACK'", ""))
        ELSE IF Len(words) < 2 THEN Fail(Raise("IndexError", "words[1]", ""))
        ELSE Ok(words[2])

-----------------------------------------------------------------------------
(* Timecode arithmetic                                                      *)

to_fracs_lenient(x) ==
    LET f == split_sep(x, ":")
    IN  IF Len(f) # 3 \/ ~(int_ok(f[1]) /\ int_ok(f[2]) /\ int_ok(f[3]))
        THEN Ok(0)
        ELSE Ok(int(f[1]) * 60 * 75 + int(f[2]) * 75 + int(f[3]))

to_fracs(x) ==
    LET f == split_sep(x, ":")
    IN  IF Len(f) # 3
        THEN Fail(Raise("ValueError", "minutes, seconds, fracs = x.split(':')", ""))
        ELSE IF ~(int_ok(f[1]) /\ int_ok(f[2]) /\ int_ok(f[3]))
        THEN Fail(Raise("ValueError", "int()", ""))
        ELSE Ok(int(f[1]) * 60 * 75 + int(f[2]) * 75 + int(f[3]))

format_fracs_seconds_uncarried(n) ==
    LET fracs == n % 75
        seconds == n \div 75
        minutes == seconds \div 60
    IN  fmt02d(minutes) \o ":" \o fmt02d(seconds) \o ":" \o fmt02d(fracs)

format_fracs(n) ==
    LET fracs == n % 75
        secs == n \div 75
        seconds == secs % 60
        minutes == secs \div 60
    IN  fmt02d(minutes) \o ":" \o fmt02d(seconds) \o ":" \o fmt02d(fracs)

offset_sum_fieldwise(x, y) ==
    LET a == to_fracs(x)
        b == to_fracs(y)
        fx == split_sep(x, ":")
        fy == split_sep(y, ":")
    IN  IF ~a.ok THEN a
        ELSE IF ~b.ok THEN b
        ELSE Ok(fmt02d(int(fx[1]) + int(fy[1])) \o ":" \o
                fmt02d(int(fx[2]) + int(fy[2])) \o ":" \o
                fmt02d(int(fx[3]) + int(fy[3])))

offset_sum(x, y) ==
    LET a == to_fracs(x)
        b == to_fracs(y)
    IN  IF ~a.ok THEN a
        ELSE IF ~b.ok THEN b
        ELSE Ok(format_fracs(a.val + b.val))

-----------------------------------------------------------------------------
(* The explored toc files: families of line sequences.                     *)

SeqsUpTo(S, n) == UNION {[1..k -> S] : k \in 0..n}

RECURSIVE flatten(_)
flatten(gs) == IF gs = << >> THEN << >> ELSE Head(gs) \o flatten(Tail(gs))

\* free-form lines: comments, blank lines, brace blocks
FoldLines ==
    {"CD_DA\n", "  // c {\n", "\n", "CD_TEXT {\n", "  }\n",
     "TRACK AUDIO\n", "FILE \"data.wav\" 0 9\n"}

\* the records of one audio track, in any order and multiplicity
Recs ==
    {"COPY\n", "NO COPY\n", "ISRC \"US1234567890\"\n", "ISRC US1234567890\n",
     "FILE \"data.wav\" 0 300\n", "FILE \"data.wav\" 00:59:01 300\n", "FILE \"data.wav\" 0\n",
     "START 00:02:00\n", "START 2:0\n", "SILENCE 00:00:74\n"}

FieldHeaders == {<<"CATALOG \"1234567890123\"\n">>}

Headers ==
    {<< >>, <<"CD_DA\n">>, <<"CD_DA\n", "CATALOG \"1234567890123\"\n">>,
     <<"CATALOG \"1234567890123\"\n", "CD_DA\n">>,
     <<"CATALOG \"1234567890123\"\n", "CATALOG \"4567890123456\"\n">>,
     <<"CATALOG 1234567890123\n">>,
     <<"CD_TEXT {\n", "  CATALOG \"0000000000000\"\n", "  }\n">>}

TrackHeaders == {<< >>, <<"CD_DA\n">>}

\* whole track groups
Groups ==
    {<<"TRACK AUDIO\n", "FILE \"data.wav\" 0 300\n">>,
     <<"TRACK AUDIO\n", "FILE \"data.wav\" 0 300\n", "SILENCE 00:00:74\n">>,
     <<"TRACK AUDIO\n", "START 00:02:00\n", "FILE \"data.wav\" 00:59:01 300\n",
       "SILENCE 00:00:74\n">>,
     <<"TRACK AUDIO\n", "COPY\n">>,
     <<"TRACK AUDIO\n", "FILE \"data.wav\" 0 300\n", "SILENCE 74\n">>,
     <<"TRACK MODE1\n", "DATAFILE \"data.wav\" 9\n">>,
     <<"TRACK MODE1\n", "SILENCE 00:00:74\n", "START 00:02:00\n",
       "FILE \"data.wav\" 0 300\n", "FILE \"data.wav\" 0 300\n">>,
     <<"TRACK MODE2_RAW\n", "FILE \"data.wav\" 0 300\n">>,
     <<"TRACK \n">>}

TocFold == SeqsUpTo(FoldLines, MaxFoldLines)

TocFields ==
    {h \o <<"TRACK AUDIO\n">> \o r : h \in FieldHeaders, r \in SeqsUpTo(Recs, MaxRecs)}

\* every header in front of at most one group
TocHeaders == {h \o flatten(gs) : h \in Headers, gs \in SeqsUpTo(Groups, 1)}

\* several groups in a row, with and without a header record
TocTracks ==
    {h \o flatten(gs) : h \in TrackHeaders, gs \in SeqsUpTo(Groups, MaxTracks)}

\* the lines put inside a CD_TEXT block
BlockLines ==
    {"  ISRC \"XX0000000000\"\n", "  FILE \"in.wav\" 0 9\n", "  COPY\n",
     "  TRACK MODE1\n", "  CATALOG \"0000000000000\"\n", "  LANGUAGE 0 {\n", "  }\n"}

Block(inner) == <<"CD_TEXT {\n">> \o inner \o <<"}\n">>

\* a block in the header and the same block inside an audio track
TocBlocks ==
    {Block(inner) \o <<"TRACK AUDIO\n">> \o pre \o Block(inner) \o post :
        inner \in SeqsUpTo(BlockLines, MaxBlockLines),
        pre \in {<< >>, <<"FILE \"data.wav\" 0 300\n">>},
        post \in {<< >>, <<"ISRC \"US1234567890\"\n">>, <<"COPY\n">>}}

\* one audio track whose FILE start, START and SILENCE values vary
TocTimes ==
    {<<"CD_DA\n", "TRACK AUDIO\n", "FILE \"data.wav\" " \o fs \o " 300\n">> \o st \o si :
        fs \in {"0", "00:59:01", "59:01", "00:xx:00"},
        st \in {<< >>, <<"START 00:02:00\n">>, <<"START 2:0\n">>, <<"START 0\n">>,
                 <<"START 00:02:00\n", "START 2:0\n">>},
        si \in {<< >>, <<"SILENCE 00:00:74\n">>, <<"SILENCE 74\n">>, <<"SILENCE 1:2:3:4\n">>}}

Tocs == TocFold \cup TocFields \cup TocHeaders \cup TocTracks \cup TocBlocks \cup TocTimes

-----------------------------------------------------------------------------
(* toc_to_cuesheet as a state machine                                       *)

\* args.compare: None when the option is absent, else its text
NoCompare == [given |-> FALSE, val |-> ""]

Compare(v) == [given |-> TRUE, val |-> v]

\* no command line runs around the conversion
MainIdle ==
    /\ args_compare = NoCompare
    /\ exit_status = -1

\* no file exists
NoFiles ==
    /\ files = << >>
    /\ disk = << >>

\* no process updates or reads a file
WritersIdle ==
    /\ wr = << >>
    /\ rd = << >>

\* the batch driver does not run
RipIdle == rip = << >>

\* no cache database is in use
CacheIdle ==
    /\ db = << >>
    /\ cache = << >>
    /\ last_call = << >>
    /\ puts = << >>

EnvIdle == MainIdle /\ NoFiles /\ WritersIdle /\ RipIdle /\ CacheIdle

Init ==
    /\ toc \in Tocs
    /\ pc = "read"
    /\ parts = << >>
    /\ tracks = << >>
    /\ track = 0
    /\ silence_offset = ""
    /\ track_1_is_audio = FALSE
    /\ cuesheet = << >>
    /\ result = ""
    /\ err = NoErr
    /\ stdout = << >>
    /\ arg_x = ""
    /\ arg_y = ""
    /\ parsed = None
    /\ formatted = ""
    /\ summed = None
    /\ EnvIdle

\* raise e out of toc_to_cuesheet while the loop is at group trk
Abort(e, trk) ==
    /\ pc' = "failed"
    /\ err' = [e EXCEPT !.track = trk]
    /\ result' = result

\* toc_to_cuesheet calls read_cdrdao_toc(toc)
Read ==
    /\ pc = "read"
    /\ LET r == read_cdrdao_toc(toc)
       IN  IF r.ok
           THEN /\ parts' = r.val
                /\ pc' = "make"
                /\ UNCHANGED <<err, result>>
           ELSE /\ Abort(r.err, -1)
                /\ UNCHANGED parts
    /\ UNCHANGED <<toc, tracks, track, silence_offset, track_1_is_audio, cuesheet, stdout, tvars, env>>

tokenise(ts) ==
    [i \in 1..Len(ts) |-> [j \in 1..Len(ts[i]) |-> split(ts[i][j])]]

\* make_cuesheet up to the loop
MakeStart ==
    /\ pc = "make"
    /\ LET ts == tokenise(split_by_track(parts))
           t1 == track_type(ts[2])
       IN  /\ tracks' = ts
           /\ IF Len(ts) < 2
              THEN /\ Abort(Raise("IndexError", "tracks[1]", ""), -1)
                   /\ UNCHANGED <<silence_offset, track_1_is_audio>>
              ELSE IF ~t1.ok
              THEN /\ Abort(t1.err, -1)
                   /\ silence_offset' = "00:00:00"
                   /\ UNCHANGED track_1_is_audio
              ELSE /\ silence_offset' = "00:00:00"
                   /\ track_1_is_audio' = (t1.val = "AUDIO")
                   /\ pc' = "loop"
                   /\ UNCHANGED <<err, result>>
    /\ UNCHANGED <<toc, parts, track, cuesheet, stdout, tvars, env>>

line_flat(indent, ps) == join(" ", ps)

\* the nested function line of make_cuesheet: the text it appends
line(indent, ps) == join(" ", [i \in 1..indent |-> " "] \o ps)

\* the group the loop is at (Python indexes from 0)
Group(k) == tracks[k + 1]

Step(cs, so, e) == [cs |-> cs, so |-> so, err |-> e]

header_body_first_catalog(data, cs) ==
    LET catalog == get_catalog(data)
        name == IF track_1_is_audio \/ ~catalog.none THEN "\"data.wav\"" ELSE "\"data_1\""
        cs1 == Append(cs, line(0, <<"FILE", name, "BINARY">>))
    IN  IF ~catalog.ok THEN Step(cs1, silence_offset, catalog.err)
        ELSE IF ~catalog.none
        THEN Step(Append(cs1, line(0, <<"CATALOG", catalog.val>>)), silence_offset, NoErr)
        ELSE Step(cs1, silence_offset, NoErr)

\* loop body for the disc header (track == 0)
header_body(data, cs) ==
    LET cs1 == Append(cs, line(0, <<"FILE",
                   IF track_1_is_audio THEN "\"data.wav\"" ELSE "\"data_1\"",
                   "BINARY">>))
        catalog == get_catalog(data)
    IN  IF ~catalog.ok THEN Step(cs1, silence_offset, catalog.err)
        ELSE IF ~catalog.none
        THEN Step(Append(cs1, line(0, <<"CATALOG", catalog.val>>)), silence_offset, NoErr)
        ELSE Step(cs1, silence_offset, NoErr)

audio_head_isrc_first(data, trk, cs, so) ==
    LET cs1 == Append(cs, line(1, <<"TRACK", fmt02d(trk), "AUDIO">>))
        isrc == get_isrc(data)
        cs2 == IF ~isrc.none THEN Append(cs1, line(2, <<"ISRC", isrc.val>>)) ELSE cs1
    IN  IF ~isrc.ok THEN Step(cs1, so, isrc.err)
        ELSE IF has_copy(data) THEN Step(Append(cs2, line(2, <<"FLAGS", "DCP">>)), so, NoErr)
        ELSE Step(cs2, so, NoErr)

\* AUDIO group, first part: the TRACK, FLAGS and ISRC lines
audio_head(data, trk, cs, so) ==
    LET cs1 == Append(cs, line(1, <<"TRACK", fmt02d(trk), "AUDIO">>))
        cs2 == IF has_copy(data) THEN Append(cs1, line(2, <<"FLAGS", "DCP">>)) ELSE cs1
        isrc == get_isrc(data)
    IN  IF ~isrc.ok THEN Step(cs2, so, isrc.err)
        ELSE IF ~isrc.none THEN Step(Append(cs2, line(2, <<"ISRC", isrc.val>>)), so, NoErr)
        ELSE Step(cs2, so, NoErr)

\* AUDIO group, second part: track_start and the INDEX lines
audio_index(data, cs, so) ==
    LET tf == get_track_file(data)
        ts0 == IF tf.val[1] = "0" THEN "00:00:00" ELSE tf.val[1]
        track_start == offset_sum(ts0, so)
        start == get_start(data)
        cs1 == Append(cs, line(2, <<"INDEX", "00", track_start.val>>))
        index01 == offset_sum(track_start.val, start.val)
    IN  IF ~tf.ok THEN Step(cs, so, tf.err)
        ELSE IF Len(tf.val) # 2
        THEN Step(cs, so, Raise("ValueError",
                          "track_start, length = get_track_file(data)", ""))
        ELSE IF ~track_start.ok THEN Step(cs, so, track_start.err)
        ELSE IF ~start.ok THEN Step(cs, so, start.err)
        ELSE IF start.none
        THEN Step(Append(cs, line(2, <<"INDEX", "01", track_start.val>>)), so, NoErr)
        ELSE IF ~index01.ok THEN Step(cs1, so, index01.err)
        ELSE Step(Append(cs1, line(2, <<"INDEX", "01", index01.val>>)), so, NoErr)

audio_silence_assign(data, cs, so) ==
    LET silence == get_silence(data)
        so1 == offset_sum("00:00:00", silence.val)
    IN  IF ~silence.ok THEN Step(cs, so, silence.err)
        ELSE IF silence.none THEN Step(cs, so, NoErr)
        ELSE IF ~so1.ok THEN Step(cs, so, so1.err)
        ELSE Step(cs, so1.val, NoErr)

\* AUDIO group, last part: SILENCE accumulates into silence_offset
audio_silence(data, cs, so) ==
    LET silence == get_silence(data)
        so1 == offset_sum(so, silence.val)
    IN  IF ~silence.ok THEN Step(cs, so, silence.err)
        ELSE IF silence.none THEN Step(cs, so, NoErr)
        ELSE IF ~so1.ok THEN Step(cs, so, so1.err)
        ELSE Step(cs, so1.val, NoErr)

\* loop body for a group of type AUDIO
audio_body_silent(data, trk, cs, so) ==
    LET h == audio_head(data, trk, cs, so)
        i == audio_index(data, h.cs, so)
    IN  IF h.err # NoErr THEN h
        ELSE i

audio_body(data, trk, cs, so) ==
    LET h == audio_head(data, trk, cs, so)
        i == audio_index(data, h.cs, so)
    IN  IF h.err # NoErr THEN h
        ELSE IF i.err # NoErr THEN i
        ELSE audio_silence(data, i.cs, so)

mode1_body_offset(data, trk, cs, so) ==
    Step(cs \o <<line(1, <<"TRACK", fmt02d(trk), "MODE1/2048">>),
                 line(2, <<"INDEX", "01", so>>)>>, so, NoErr)

\* loop body for a group of type MODE1
mode1_body(data, trk, cs, so) ==
    Step(cs \o <<line(1, <<"TRACK", fmt02d(trk), "MODE1/2048">>),
                 line(2, <<"INDEX", "01", "00:00:00">>)>>, so, NoErr)

\* repr of a str without quote or backslash inside, or with double quotes only
repr_str(w) == "'" \o w \o "'"

repr_list(xs) == "[" \o join(", ", xs) \o "]"

\* what print(matches) writes: the repr of a list of lists of str, and a newline
print_matches(matches) ==
    repr_list([i \in 1..Len(matches) |->
                  repr_list([j \in 1..Len(matches[i]) |-> repr_str(matches[i][j])])])
        \o "\n"

\* what only_matching_word printed before it raised e: its matches, when
\* there were two or more of them
printed(data, e) ==
    IF e.at = "len(matches) < 2" THEN <<print_matches(matching(data, e.key))>> ELSE << >>

\* commit one iteration of the loop
Iterate(st) ==
    /\ cuesheet' = st.cs
    /\ silence_offset' = st.so
    /\ stdout' = stdout \o printed(Group(track), st.err)
    /\ IF st.err = NoErr
       THEN /\ track' = track + 1
            /\ UNCHANGED <<pc, err, result>>
       ELSE /\ Abort(st.err, track)
            /\ UNCHANGED track
    /\ UNCHANGED <<toc, parts, tracks, track_1_is_audio, tvars, env>>

HeaderGroup ==
    /\ pc = "loop"
    /\ track = 0
    /\ Iterate(header_body(Group(track), cuesheet))

AudioGroup ==
    /\ pc = "loop"
    /\ 0 < track /\ track < Len(tracks)
    /\ track_type(Group(track)).ok
    /\ track_type(Group(track)).val = "AUDIO"
    /\ Iterate(audio_body(Group(track), track, cuesheet, silence_offset))

Mode1Group ==
    /\ pc = "loop"
    /\ 0 < track /\ track < Len(tracks)
    /\ track_type(Group(track)).ok
    /\ track_type(Group(track)).val = "MODE1"
    /\ Iterate(mode1_body(Group(track), track, cuesheet, silence_offset))

OtherGroup_skip ==
    /\ pc = "loop"
    /\ 0 < track /\ track < Len(tracks)
    /\ LET t == track_type(Group(track))
       IN  \/ /\ ~t.ok
              /\ Iterate(Step(cuesheet, silence_offset, t.err))
           \/ /\ t.ok
              /\ t.val \notin {"AUDIO", "MODE1"}
              /\ Iterate(Step(cuesheet, silence_offset, NoErr))

\* neither branch taken: assert False, or track_type itself raises
OtherGroup ==
    /\ pc = "loop"
    /\ 0 < track /\ track < Len(tracks)
    /\ LET t == track_type(Group(track))
       IN  \/ /\ ~t.ok
              /\ Iterate(Step(cuesheet, silence_offset, t.err))
           \/ /\ t.ok
              /\ t.val \notin {"AUDIO", "MODE1"}
              /\ Iterate(Step(cuesheet, silence_offset,
                              Raise("AssertionError", "False", "")))

Return_unterminated ==
    /\ pc = "loop"
    /\ track = Len(tracks)
    /\ cuesheet' = cuesheet
    /\ result' = join("\n", cuesheet')
    /\ pc' = "done"
    /\ UNCHANGED <<toc, parts, tracks, track, silence_offset, track_1_is_audio, err, stdout, tvars, env>>

\* after the loop: the trailing empty line, the join and the return
Return ==
    /\ pc = "loop"
    /\ track = Len(tracks)
    /\ cuesheet' = Append(cuesheet, line(0, << >>))
    /\ result' = join("\n", cuesheet')
    /\ pc' = "done"
    /\ UNCHANGED <<toc, parts, tracks, track, silence_offset, track_1_is_audio, err, stdout, tvars, env>>

Next ==
    \/ Read
    \/ MakeStart
    \/ HeaderGroup
    \/ AudioGroup
    \/ Mode1Group
    \/ OtherGroup
    \/ Return

Spec == Init /\ [][Next]_vars

-----------------------------------------------------------------------------
(* to_fracs and offset_sum called directly on two timecode texts           *)

TimeFields ==
    {"00", "01", "09", "10", "59", "60", "74", "75", "99", "100", "0", "5", "000"}

\* texts that are not three unsigned integer fields
OddTimecodes ==
    {"", "0", "74", "2:0", "1:2:3:4", "00:00:xx", "00::00", "-1:00:00",
     "00:00:-1", "+1:00:00"}

Timecodes ==
    {m \o ":" \o sec \o ":" \o f : m \in TimeFields, sec \in TimeFields, f \in TimeFields}
        \cup OddTimecodes

Addends ==
    {"00:00:00", "00:00:01", "00:59:74", "99:59:74", "0:0:0", "00:00:75",
     "5:60:100", "2:0", "-1:00:00"}

TimecodeInit ==
    /\ arg_x \in Timecodes
    /\ arg_y \in Addends
    /\ parsed = None
    /\ formatted = ""
    /\ summed = None
    /\ pc = "to_fracs"
    /\ toc = << >>
    /\ parts = << >>
    /\ tracks = << >>
    /\ track = 0
    /\ silence_offset = ""
    /\ track_1_is_audio = FALSE
    /\ cuesheet = << >>
    /\ result = ""
    /\ err = NoErr
    /\ stdout = << >>
    /\ EnvIdle

cvars == <<toc, parts, tracks, track, silence_offset, track_1_is_audio,
           cuesheet, result, err, stdout>>

\* to_fracs(x)
ToFracs ==
    /\ pc = "to_fracs"
    /\ parsed' = to_fracs(arg_x)
    /\ pc' = "format"
    /\ UNCHANGED <<arg_x, arg_y, formatted, summed, cvars, env>>

\* the divmod chain and the f-string of offset_sum on the frame count of x
FormatFracs ==
    /\ pc = "format"
    /\ formatted' = IF parsed.ok THEN format_fracs(parsed.val) ELSE ""
    /\ pc' = "offset_sum"
    /\ UNCHANGED <<arg_x, arg_y, parsed, summed, cvars, env>>

\* offset_sum(x, y)
OffsetSum ==
    /\ pc = "offset_sum"
    /\ summed' = offset_sum(arg_x, arg_y)
    /\ pc' = "returned"
    /\ UNCHANGED <<arg_x, arg_y, parsed, formatted, cvars, env>>

TimecodeNext ==
    \/ ToFracs
    \/ FormatFracs
    \/ OffsetSum

TimecodeSpec == TimecodeInit /\ [][TimecodeNext]_vars

-----------------------------------------------------------------------------
(* cu.music.cuesheet run as a program: main and sys.exit                   *)

RECURSIVE universal_newlines(_)
\* what a text-mode read makes of the stored characters
universal_newlines(s) ==
    IF s = "" THEN ""
    ELSE IF startswith(s, "\r\n") THEN "\n" \o universal_newlines(SubSeq(s, 3, Len(s)))
    ELSE IF startswith(s, "\r") THEN "\n" \o universal_newlines(Tail(s))
    ELSE SubSeq(s, 1, 1) \o universal_newlines(Tail(s))

\* file_contents(path): open(path, 'r') and read
file_contents(path) ==
    IF path \in DOMAIN files
    THEN Ok(universal_newlines(disk[files[path]].data))
    ELSE Fail(Raise("FileNotFoundError", "open", path))

\* the truth value of args.compare
truthy(a) == a.given /\ a.val # ""

\* sys.exit(main() or 0)
exit_or_0(r) == IF r.none THEN 0 ELSE IF r.val = 0 THEN 0 ELSE r.val

\* the cue text of the tocs of MainTocs that convert to one audio track
RefText == "FILE \"data.wav\" BINARY\n  TRACK 01 AUDIO\n    INDEX 01 00:00:00\n"

\* stored contents of the reference file
RefFiles ==
    {RefText,
     "FILE \"data.wav\" BINARY\r\n  TRACK 01 AUDIO\r\n    INDEX 01 00:00:00\r\n",
     "FILE \"data.wav\" BINARY\n  TRACK 01 AUDIO\n    INDEX 01 00:00:00",
     "FILE \"data.wav\" BINARY\n  TRACK 01 AUDIO\n    INDEX 01 00:00:00\n\n",
     ""}

CompareArgs == {NoCompare, Compare(""), Compare("ref.cue"), Compare("missing.cue")}

MainTocs == TocHeaders

MainInit ==
    /\ toc \in MainTocs
    /\ args_compare \in CompareArgs
    /\ files = ("ref.cue" :> 1)
    /\ disk \in {<<[data |-> c, by |-> {}]>> : c \in RefFiles}
    /\ exit_status = -1
    /\ WritersIdle
    /\ RipIdle
    /\ CacheIdle
    /\ pc = "read"
    /\ parts = << >>
    /\ tracks = << >>
    /\ track = 0
    /\ silence_offset = ""
    /\ track_1_is_audio = FALSE
    /\ cuesheet = << >>
    /\ result = ""
    /\ err = NoErr
    /\ stdout = << >>
    /\ arg_x = ""
    /\ arg_y = ""
    /\ parsed = None
    /\ formatted = ""
    /\ summed = None

\* main after toc_to_cuesheet returned, --compare given: read and compare
MainCompare ==
    /\ pc = "done"
    /\ truthy(args_compare)
    /\ LET reference == file_contents(args_compare.val)
       IN  IF reference.ok
           THEN /\ exit_status' = exit_or_0(Ok(IF reference.val = result THEN 0 ELSE 1))
                /\ err' = err
           ELSE /\ exit_status' = 1
                /\ err' = reference.err
    /\ pc' = "exited"
    /\ UNCHANGED <<toc, parts, tracks, track, silence_offset, track_1_is_audio, cuesheet,
                   result, stdout, args_compare, fvars, rvars, kvars,
                   tvars>>

\* main after toc_to_cuesheet returned, no comparison: print(cuesheet, end='')
MainPrint ==
    /\ pc = "done"
    /\ ~truthy(args_compare)
    /\ stdout' = Append(stdout, result)
    /\ exit_status' = exit_or_0(None)
    /\ pc' = "exited"
    /\ UNCHANGED <<toc, parts, tracks, track, silence_offset, track_1_is_audio, cuesheet,
                   result, err, args_compare, fvars, rvars, kvars,
                   tvars>>

\* the exception of toc_to_cuesheet leaves main uncaught
MainRaise ==
    /\ pc = "failed"
    /\ exit_status' = 1
    /\ pc' = "exited"
    /\ UNCHANGED <<toc, parts, tracks, track, silence_offset, track_1_is_audio, cuesheet,
                   result, err, stdout, args_compare, fvars, rvars, kvars,
                   tvars>>

MainNext ==
    \/ Read
    \/ MakeStart
    \/ HeaderGroup
    \/ AudioGroup
    \/ Mode1Group
    \/ OtherGroup
    \/ Return
    \/ MainCompare
    \/ MainPrint
    \/ MainRaise

MainSpec == MainInit /\ [][MainNext]_vars

-----------------------------------------------------------------------------
(* cu.util.file: update of a file through a temporary and a rename         *)

max_tries == 16

ChunkLen == 2

\* the six random characters of a later attempt, drawn from two outcomes
SeqSuffixes == {"aaaaaa", "bbbbbb"}

RECURSIVE last_slash(_)
\* the position of the last '/' of a path, 0 if it has none
last_slash(path) ==
    IF path = "" THEN 0
    ELSE IF endswith(path, "/") THEN Len(path)
    ELSE last_slash(SubSeq(path, 1, Len(path) - 1))

\* os.path.split
dirname(path) == SubSeq(path, 1, last_slash(path) - 1)

filename(path) == SubSeq(path, last_slash(path) + 1, Len(path))

\* os.path.join of a directory and a name
path_join(dir, name) == IF dir = "" THEN name ELSE dir \o "/" \o name

\* _temp_name_to_update: the path yielded at an attempt
temp_name(path, pid, attempt, seq) ==
    path_join(dirname(path),
              ".tmp" \o "." \o ToString(pid) \o (IF attempt = 0 THEN "" ELSE "." \o seq)
                  \o "." \o filename(path))

is_last(attempt) == attempt = max_tries - 1

\* os.remove on a directory
os_remove(dir, path) == [q \in DOMAIN dir \ {path} |-> dir[q]]

os_rename_copy(dir, src_path, dst_path) ==
    [q \in DOMAIN dir \cup {dst_path} |-> IF q = dst_path THEN dir[src_path] ELSE dir[q]]

\* os.rename on a directory: dst names the inode of src, src is gone
os_rename(dir, src_path, dst_path) ==
    [q \in (DOMAIN dir \ {src_path}) \cup {dst_path} |->
        IF q = dst_path THEN dir[src_path] ELSE dir[q]]

\* the inode O_CREAT makes
new_inode(inodes) == Len(inodes) + 1

\* an empty file, written by nobody
empty_file == [data |-> "", by |-> {}]

open_mode_truncating == "w"

\* open_mode of a text temporary: 'x', that is O_CREAT | O_EXCL
open_mode == "x"

\* open(path, mode) for writing: FileExistsError, or the file and the file system left
open_file(dir, inodes, path, mode) ==
    IF path \in DOMAIN dir
    THEN IF mode = "x"
         THEN [exists |-> TRUE, f |-> 0, dir |-> dir, inodes |-> inodes]
         ELSE [exists |-> FALSE, f |-> dir[path], dir |-> dir,
               inodes |-> [inodes EXCEPT ![dir[path]].data = ""]]
    ELSE [exists |-> FALSE, f |-> new_inode(inodes),
          dir |-> (path :> new_inode(inodes)) @@ dir,
          inodes |-> Append(inodes, empty_file)]

\* f.write(part) by process w on the open file f
f_write(inodes, f, part, w) ==
    [inodes EXCEPT ![f] = [data |-> @.data \o part, by |-> @.by \cup {w}]]

written_file_of_path(dir, writer) ==
    IF writer.path \in DOMAIN dir THEN dir[writer.path] ELSE writer.f

\* the file the context body writes: the file object opened on the temporary
written_file(dir, writer) == writer.f

swallowed_any(exc) == TRUE

\* except AbortUpdate: the with-statement completes normally
swallowed(exc) == exc = "AbortUpdate"

\* what a context body may raise: AbortUpdate, an Exception, a BaseException
BodyExceptions == {"AbortUpdate", "TypeError", "KeyboardInterrupt"}

\* a process that has not entered tempfile_to_update
NewWriter(pid) ==
    [pc |-> "idle", pid |-> pid, path |-> "", contents |-> << >>, attempt |-> 0,
     temp_path |-> "", f |-> 0, written |-> 0, exc |-> "", renamed |-> FALSE]

\* everything a step of cu.util.file leaves alone
not_files == <<toc, pc, parts, tracks, track, silence_offset, track_1_is_audio, cuesheet,
               result, err, stdout, tvars, mvars, kvars, rvars>>

\* write_file_via_rename(path, contents) enters tempfile_to_update(path)
Enter(w, path, contents) ==
    /\ wr[w].pc = "idle"
    /\ wr' = [wr EXCEPT ![w] = [@ EXCEPT !.pc = "open", !.path = path, !.contents = contents]]
    /\ UNCHANGED <<files, disk, rd, not_files>>

\* one turn of the loop over the temporary names: open with O_CREAT | O_EXCL
OpenTemp(w) ==
    /\ wr[w].pc = "open"
    /\ \E seq \in (IF wr[w].attempt = 0 THEN {""} ELSE SeqSuffixes) :
          LET temp_path == temp_name(wr[w].path, wr[w].pid, wr[w].attempt, seq)
              opened == open_file(files, disk, temp_path, open_mode)
          IN  IF opened.exists
              THEN /\ wr' = [wr EXCEPT ![w] =
                                IF is_last(@.attempt)
                                THEN [@ EXCEPT !.pc = "raised", !.exc = "FileExistsError"]
                                ELSE [@ EXCEPT !.attempt = @ + 1]]
                   /\ UNCHANGED <<files, disk>>
              ELSE /\ files' = opened.dir
                   /\ disk' = opened.inodes
                   /\ wr' = [wr EXCEPT ![w] =
                                [@ EXCEPT !.pc = "body", !.temp_path = temp_path,
                                          !.f = opened.f]]
    /\ UNCHANGED <<rd, not_files>>

\* the context body: _write_contents writes the next part
Write(w) ==
    /\ wr[w].pc = "body"
    /\ wr[w].written < Len(wr[w].contents)
    /\ disk' = f_write(disk, written_file(files, wr[w]), wr[w].contents[wr[w].written + 1], w)
    /\ wr' = [wr EXCEPT ![w].written = @ + 1]
    /\ UNCHANGED <<files, rd, not_files>>

\* the context body raises; the with-statement closes f on the way out
BodyRaises(w, raised) ==
    /\ wr[w].pc = "body"
    /\ \E exc \in raised :
          wr' = [wr EXCEPT ![w] = [@ EXCEPT !.pc = "except", !.exc = exc]]
    /\ UNCHANGED <<files, disk, rd, not_files>>

\* the context body is over: with f closes the file, which may fail
Close(w) ==
    /\ wr[w].pc = "body"
    /\ wr[w].written = Len(wr[w].contents)
    /\ \E closed \in BOOLEAN :
          wr' = [wr EXCEPT ![w] =
                    IF closed THEN [@ EXCEPT !.pc = "rename"]
                    ELSE [@ EXCEPT !.pc = "except", !.exc = "OSError"]]
    /\ UNCHANGED <<files, disk, rd, not_files>>

\* os.rename(temp_path, path)
Rename(w) ==
    /\ wr[w].pc = "rename"
    /\ IF wr[w].temp_path \in DOMAIN files
       THEN /\ files' = os_rename(files, wr[w].temp_path, wr[w].path)
            /\ wr' = [wr EXCEPT ![w] = [@ EXCEPT !.pc = "returned", !.renamed = TRUE]]
       ELSE /\ wr' = [wr EXCEPT ![w] = [@ EXCEPT !.pc = "except", !.exc = "FileNotFoundError"]]
            /\ UNCHANGED files
    /\ UNCHANGED <<disk, rd, not_files>>

\* the except clauses: os.remove(temp_path), then return or re-raise
Remove(w) ==
    /\ wr[w].pc = "except"
    /\ IF wr[w].temp_path \in DOMAIN files
       THEN /\ files' = os_remove(files, wr[w].temp_path)
            /\ wr' = [wr EXCEPT ![w].pc = IF swallowed(wr[w].exc) THEN "returned" ELSE "raised"]
       ELSE /\ wr' = [wr EXCEPT ![w] =
                         [@ EXCEPT !.pc = "raised",
                                   !.exc = IF @ = "AbortUpdate" THEN "FileNotFoundError" ELSE @]]
            /\ UNCHANGED files
    /\ UNCHANGED <<disk, rd, not_files>>

\* a process that has not opened anything
NewReader == [pc |-> "idle", f |-> 0, seen |-> ""]

\* open(path) by the reader
ReaderOpen(path) ==
    /\ rd.pc = "idle"
    /\ rd' = IF path \in DOMAIN files
             THEN [pc |-> "reading", f |-> files[path], seen |-> ""]
             ELSE [rd EXCEPT !.pc = "nofile"]
    /\ UNCHANGED <<files, disk, wr, not_files>>

\* the reader reads the next characters of the file it holds open
ReaderRead ==
    /\ rd.pc = "reading"
    /\ LET data == disk[rd.f].data
           upto == IF Len(rd.seen) + ChunkLen < Len(data) THEN Len(rd.seen) + ChunkLen
                   ELSE Len(data)
           chunk == SubSeq(data, Len(rd.seen) + 1, upto)
       IN  rd' = IF chunk = "" THEN [rd EXCEPT !.pc = "done"]
                 ELSE [rd EXCEPT !.seen = @ \o chunk]
    /\ UNCHANGED <<files, disk, wr, not_files>>

\* the file two processes update and a third reads
Target == "foo"

InitialContents == "{}"

Writers == {1, 2}

\* the contents each process writes, part by part
Contents(w) == IF w = 1 THEN <<"[1,", "2]">> ELSE <<"[3]">>

\* process ids: different, or equal as in two pid namespaces over one directory
Pids == {<<11, 12>>, <<11, 11>>}

\* the target, present or not yet created
TargetFiles == {<< >>, <<[path |-> Target, data |-> InitialContents]>>}

\* temporaries left behind by killed processes
StaleFiles ==
    {<< >>,
     <<[path |-> temp_name(Target, 11, 0, ""), data |-> "[9"]>>,
     <<[path |-> temp_name(Target, 11, 0, ""), data |-> "[9"],
       [path |-> temp_name(Target, 11, 1, "aaaaaa"), data |-> ""],
       [path |-> temp_name(Target, 11, 1, "bbbbbb"), data |-> ""]>>}

\* the directory and the inodes holding a sequence of files
dir_of(fl) ==
    [q \in {fl[i].path : i \in 1..Len(fl)} |-> CHOOSE i \in 1..Len(fl) : fl[i].path = q]

inodes_of(fl) == [i \in 1..Len(fl) |-> [data |-> fl[i].data, by |-> {}]]

RenameInit ==
    /\ \E t \in TargetFiles, st \in StaleFiles :
          /\ files = dir_of(t \o st)
          /\ disk = inodes_of(t \o st)
    /\ wr \in {[w \in Writers |-> NewWriter(pids[w])] : pids \in Pids}
    /\ rd = NewReader
    /\ MainIdle
    /\ RipIdle
    /\ CacheIdle
    /\ pc = "files"
    /\ toc = << >>
    /\ parts = << >>
    /\ tracks = << >>
    /\ track = 0
    /\ silence_offset = ""
    /\ track_1_is_audio = FALSE
    /\ cuesheet = << >>
    /\ result = ""
    /\ err = NoErr
    /\ stdout = << >>
    /\ arg_x = ""
    /\ arg_y = ""
    /\ parsed = None
    /\ formatted = ""
    /\ summed = None

RenameNext ==
    \/ \E w \in Writers : Enter(w, Target, Contents(w))
    \/ \E w \in Writers : OpenTemp(w)
    \/ \E w \in Writers : Write(w)
    \/ \E w \in Writers : BodyRaises(w, BodyExceptions)
    \/ \E w \in Writers : Close(w)
    \/ \E w \in Writers : Rename(w)
    \/ \E w \in Writers : Remove(w)
    \/ ReaderOpen(Target)
    \/ ReaderRead

RenameSpec == RenameInit /\ [][RenameNext]_vars

-----------------------------------------------------------------------------
(* cu.music.rip: rip_one_disc inside the loop of main                      *)

MaxRuns == 2

\* the process running rip.main, and the programs it runs (cdrdao, cdparanoia)
RipProc == 1

Programs == 0

\* d.id and d.submission_url of the disc in the drive
Disc == "DISC"

submission_url == "http://musicbrainz.org/cdtoc/attach?id=DISC"

\* cu.music.config.rip_dir
rip_dir == "rip"

toc_path(disc_id) == path_join(rip_dir, disc_id \o ".toc")

cue_path(disc_id) == path_join(rip_dir, disc_id \o ".cue")

url_path(disc_id) == path_join(rip_dir, disc_id \o ".url")

wav_path(disc_id) == path_join(rip_dir, disc_id \o ".wav")

\* what cdrdao may have read from the disc
RipTocs ==
    {<<"CD_DA\n", "TRACK AUDIO\n", "FILE \"data.wav\" 0 300\n">>,
     <<"CD_DA\n", "TRACK AUDIO\n", "FILE \"data.wav\" 0 300\n",
       "TRACK MODE1\n", "DATAFILE \"data.wav\" 9\n">>,
     <<"CATALOG \"1234567890123\"\n", "CATALOG \"4567890123456\"\n",
       "TRACK AUDIO\n", "FILE \"data.wav\" 0 300\n">>,
     <<"CD_DA\n", "TRACK AUDIO\n", "FILE \"data.wav\" 0 300\n",
       "TRACK MODE2_RAW\n", "FILE \"data.wav\" 0 300\n">>,
     <<"CD_TEXT {\n">>}

\* a cue file and a marker an earlier run of the program published
OldCue == "FILE \"data.wav\" BINARY\n  TRACK 01 AUDIO\n    INDEX 01 00:04:00\n"

OldFiles ==
    {<< >>,
     <<[path |-> cue_path(Disc), data |-> OldCue]>>,
     <<[path |-> cue_path(Disc), data |-> OldCue],
       [path |-> url_path(Disc), data |-> submission_url \o "\n"]>>}

\* a program run by subprocess.run writes a whole file
program_writes(dir, inodes, path, data) ==
    LET opened == open_file(dir, inodes, path, "w")
    IN  [dir |-> opened.dir, inodes |-> f_write(opened.inodes, opened.f, data, Programs)]

arguments_evaluated_lazily == pc \in {"read", "done"}

\* the arguments of write_contents_to are evaluated before it is called
arguments_evaluated == pc = "done"

after_rip_always(ok) == "url"

\* if rip_disc(wav): write the marker, else report
after_rip(ok) == IF ok THEN "url" ELSE "end"

\* the state of toc_to_cuesheet
conversion == <<toc, pc, parts, tracks, track, silence_offset, track_1_is_audio, cuesheet,
                result, err>>

RipInit ==
    /\ rip = [pc |-> "start", runs |-> 1, events |-> << >>, ended |-> << >>]
    /\ \E old \in OldFiles :
          /\ files = dir_of(old)
          /\ disk = inodes_of(old)
    /\ wr = <<NewWriter(11)>>
    /\ rd = NewReader
    /\ MainIdle
    /\ CacheIdle
    /\ pc = "idle"
    /\ toc = << >>
    /\ parts = << >>
    /\ tracks = << >>
    /\ track = 0
    /\ silence_offset = ""
    /\ track_1_is_audio = FALSE
    /\ cuesheet = << >>
    /\ result = ""
    /\ err = NoErr
    /\ stdout = << >>
    /\ arg_x = ""
    /\ arg_y = ""
    /\ parsed = None
    /\ formatted = ""
    /\ summed = None

\* rip_one_disc up to the test of the marker
FoundDisc ==
    /\ rip.pc = "start"
    /\ IF url_path(Disc) \in DOMAIN files
       THEN /\ rip' = [rip EXCEPT !.pc = "end", !.events = <<"skip">>,
                                  !.ended = Append(@, "skipped")]
            /\ stdout' = stdout \o <<"Found disc: " \o Disc \o "\n",
                                     "  Appears to be done; skipping.\n">>
       ELSE /\ rip' = [rip EXCEPT !.pc = "toc", !.events = << >>]
            /\ stdout' = Append(stdout, "Found disc: " \o Disc \o "\n")
    /\ UNCHANGED <<conversion, tvars, mvars, kvars, fvars>>

\* read_toc(toc): cdrdao writes the toc file and succeeds, or fails
ReadToc ==
    /\ rip.pc = "toc"
    /\ \E ok \in BOOLEAN, t \in RipTocs :
          IF ok
          THEN LET written == program_writes(files, disk, toc_path(Disc), join("", t))
               IN  /\ files' = written.dir
                   /\ disk' = written.inodes
                   /\ rip' = [rip EXCEPT !.pc = "cuesheet", !.events = Append(@, "toc")]
                   /\ stdout' = stdout \o <<"TOC:\n", "Cuesheet:\n">>
                   /\ toc' = t
                   /\ pc' = "read"
                   /\ parts' = << >>
                   /\ tracks' = << >>
                   /\ track' = 0
                   /\ silence_offset' = ""
                   /\ track_1_is_audio' = FALSE
                   /\ cuesheet' = << >>
                   /\ result' = ""
                   /\ err' = NoErr
          ELSE /\ rip' = [rip EXCEPT !.pc = "end", !.ended = Append(@, "toc failed")]
               /\ stdout' = stdout \o <<"TOC:\n", "Failed to read TOC\n">>
               /\ UNCHANGED <<files, disk, conversion>>
    /\ UNCHANGED <<wr, rd, tvars, mvars, kvars>>

\* toc_to_cuesheet raised: the exception leaves rip_one_disc and main
ConversionRaises ==
    /\ rip.pc = "cuesheet"
    /\ pc = "failed"
    /\ rip' = [rip EXCEPT !.pc = "crashed", !.ended = Append(@, "conversion failed")]
    /\ UNCHANGED <<conversion, stdout, tvars, mvars, kvars, fvars>>

\* write_contents_to(cue_path(mbid), <the cue text>) is entered
WriteCue ==
    /\ rip.pc = "cuesheet"
    /\ arguments_evaluated
    /\ Enter(RipProc, cue_path(Disc), <<result>>)

\* write_contents_to returned
CueWritten ==
    /\ rip.pc = "cuesheet"
    /\ wr[RipProc].pc = "returned"
    /\ rip' = [rip EXCEPT !.pc = "rip", !.events = Append(@, "cue")]
    /\ wr' = [wr EXCEPT ![RipProc] = NewWriter(@.pid)]
    /\ stdout' = Append(stdout, "Rip:\n")
    /\ UNCHANGED <<conversion, tvars, mvars, kvars, files, disk, rd>>

\* write_contents_to raised: the exception leaves rip_one_disc and main
WriteRaises ==
    /\ rip.pc \in {"cuesheet", "url"}
    /\ wr[RipProc].pc = "raised"
    /\ rip' = [rip EXCEPT !.pc = "crashed", !.ended = Append(@, "write failed")]
    /\ UNCHANGED <<conversion, stdout, tvars, mvars, kvars, fvars>>

\* rip_disc(wav): cdparanoia writes the audio and succeeds, or fails
RipDisc ==
    /\ rip.pc = "rip"
    /\ \E ok \in BOOLEAN :
          /\ rip' = [rip EXCEPT !.pc = after_rip(ok),
                                !.events = IF ok THEN Append(@, "wav") ELSE @,
                                !.ended = IF after_rip(ok) = "url" THEN @
                                          ELSE Append(@, "copy failed")]
          /\ IF ok
             THEN LET written == program_writes(files, disk, wav_path(Disc), "RIFF")
                  IN  /\ files' = written.dir
                      /\ disk' = written.inodes
             ELSE UNCHANGED <<files, disk>>
          /\ stdout' = IF after_rip(ok) = "url" THEN stdout
                       ELSE Append(stdout, "Copy failed for " \o submission_url \o "\n")
    /\ UNCHANGED <<conversion, tvars, mvars, kvars, wr, rd>>

\* write_contents_to(url, [d.submission_url, '\n']) is entered
WriteUrl ==
    /\ rip.pc = "url"
    /\ Enter(RipProc, url_path(Disc), <<submission_url, "\n">>)

\* the marker is written: rip_one_disc returns
UrlWritten ==
    /\ rip.pc = "url"
    /\ wr[RipProc].pc = "returned"
    /\ rip' = [rip EXCEPT !.pc = "end", !.events = Append(@, "url"),
                           !.ended = Append(@, "copied")]
    /\ wr' = [wr EXCEPT ![RipProc] = NewWriter(@.pid)]
    /\ stdout' = Append(stdout, "Successful copy.\n")
    /\ UNCHANGED <<conversion, tvars, mvars, kvars, files, disk, rd>>

\* main: eject, wait for a disc, call rip_one_disc again
NextDisc ==
    /\ rip.pc = "end"
    /\ rip.runs < MaxRuns
    /\ rip' = [rip EXCEPT !.pc = "start", !.runs = @ + 1, !.events = << >>]
    /\ stdout' = stdout \o <<"Eject:\n", "\n">>
    /\ UNCHANGED <<conversion, tvars, mvars, kvars, fvars>>

\* the program is started again after an exception ended it
Restart ==
    /\ rip.pc = "crashed"
    /\ rip.runs < MaxRuns
    /\ rip' = [rip EXCEPT !.pc = "start", !.runs = @ + 1, !.events = << >>]
    /\ wr' = [wr EXCEPT ![RipProc] = NewWriter(@.pid)]
    /\ UNCHANGED <<conversion, stdout, tvars, mvars, kvars, files, disk, rd>>

RipNext ==
    \/ FoundDisc
    \/ ReadToc
    \/ Read
    \/ MakeStart
    \/ HeaderGroup
    \/ AudioGroup
    \/ Mode1Group
    \/ OtherGroup
    \/ Return
    \/ ConversionRaises
    \/ WriteCue
    \/ OpenTemp(RipProc)
    \/ Write(RipProc)
    \/ BodyRaises(RipProc, {"KeyboardInterrupt"})
    \/ Close(RipProc)
    \/ Rename(RipProc)
    \/ Remove(RipProc)
    \/ CueWritten
    \/ WriteRaises
    \/ RipDisc
    \/ WriteUrl
    \/ UrlWritten
    \/ NextDisc
    \/ Restart

RipSpec == RipInit /\ [][RipNext]_vars

-----------------------------------------------------------------------------
(* cu.music.cache: objects kept in an SQLite database, each with the set   *)
(* of inclusions it was fetched with and the time it was stored.           *)

\* the Python values stored: None, a str, a list of str, a dict of one pair
PyNone == [py |-> "NoneType", val |-> "", items |-> << >>]

PyStr(s) == [py |-> "str", val |-> s, items |-> << >>]

PyList(xs) == [py |-> "list", val |-> "", items |-> xs]

PyDict(k, v) == [py |-> "dict", val |-> v, items |-> <<k>>]

\* an optional integer argument: None or a number
NoneInt == [none |-> TRUE, val |-> 0]

IntArg(n) == [none |-> FALSE, val |-> n]

quoted(s) == "\"" \o s \o "\""

unquoted(s) == SubSeq(s, 2, Len(s) - 1)

\* json.dumps of the values above: the text kept in the contents column
json_dumps(obj) ==
    CASE obj.py = "NoneType" -> "null"
      [] obj.py = "str" -> quoted(obj.val)
      [] obj.py = "list" ->
            "[" \o join(", ", [i \in 1..Len(obj.items) |->
                                  quoted(obj.items[i])]) \o "]"
      [] obj.py = "dict" ->
            "{" \o quoted(obj.items[1]) \o ": " \o quoted(obj.val) \o "}"

\* json.loads of a text of that family
json_loads(text) ==
    LET inner == SubSeq(text, 2, Len(text) - 1)
        elements == split_sep(inner, ",")
        pair == split_sep(inner, ":")
    IN  CASE text = "null" -> PyNone
          [] Head(text) = "\"" -> PyStr(unquoted(text))
          [] Head(text) = "[" ->
                PyList(IF inner = "" THEN << >>
                       ELSE [i \in 1..Len(elements) |->
                                unquoted(strip(elements[i]))])
          [] Head(text) = "{" ->
                PyDict(unquoted(strip(pair[1])), unquoted(strip(pair[2])))

frozenset(xs) == {xs[i] : i \in 1..Len(xs)}

\* the inclusion names of the explored calls, ascending as str compares them
IncludeNames == <<"a,b", "artists", "discids", "media">>

RECURSIVE sorted_from(_, _)
sorted_from(names, s) ==
    IF names = << >> THEN << >>
    ELSE (IF Head(names) \in s THEN <<Head(names)>> ELSE << >>)
             \o sorted_from(Tail(names), s)

sorted(s) == sorted_from(IncludeNames, s)

\* Cache._inclusions_to_str: the text of the includes column, or ValueError
_inclusions_to_str(inclusions_iterable) ==
    LET inclusions == sorted(frozenset(inclusions_iterable))
    IN  IF \E i \in 1..Len(inclusions) :
               count(inclusions[i], ",") > 0 \/ count(inclusions[i], "@") > 0
        THEN [raised |-> "ValueError", val |-> ""]
        ELSE IF inclusions = << >> THEN [raised |-> "", val |-> "@"]
        ELSE [raised |-> "", val |-> join(",", inclusions)]

\* Cache._str_to_inclusions
_str_to_inclusions(s) ==
    IF s = "@" THEN {} ELSE frozenset(split_sep(s, ","))

\* a Cache object before its first use of the inclusions table
NewCache ==
    [loaded |-> FALSE, _inclusions_to_id |-> << >>, _id_to_inclusions |-> << >>]

\* Cache._read_inclusions: both maps rebuilt from the rows in id order,
\* a later row of the same set taking the set's entry
_read_inclusions(rows) ==
    LET sets == [i \in 1..Len(rows) |-> _str_to_inclusions(rows[i])]
    IN  [loaded |-> TRUE,
         _inclusions_to_id |->
             [s \in frozenset(sets) |->
                 CHOOSE i \in 1..Len(rows) :
                     /\ sets[i] = s
                     /\ \A j \in 1..Len(rows) : sets[j] = s => j <= i],
         _id_to_inclusions |-> sets]

\* Cache._ensure_inclusions
_ensure_inclusions(c, rows) ==
    IF c.loaded THEN c ELSE _read_inclusions(rows)

\* Cache._get_id_for_includes: the id of the row of this set of inclusions,
\* a row being added when the object knows none; the table and the object
\* after the call
_get_id_for_includes(c, rows, includes) ==
    LET inclusions == frozenset(includes)
        ensured == _ensure_inclusions(c, rows)
        text == _inclusions_to_str(includes)
        added == Append(rows, text.val)
        reread == _read_inclusions(added)
    IN  IF inclusions \in DOMAIN ensured._inclusions_to_id
        THEN [raised |-> "", id |-> ensured._inclusions_to_id[inclusions],
              rows |-> rows, cache |-> ensured]
        ELSE IF text.raised # ""
        THEN [raised |-> text.raised, id |-> 0, rows |-> rows,
              cache |-> ensured]
        ELSE [raised |-> "", id |-> reread._inclusions_to_id[inclusions],
              rows |-> added, cache |-> reread]

\* Cache._get_inclusions_by_id: the table is read again for an unknown id
_get_inclusions_by_id(c, rows, inclusion_id) ==
    LET ensured == _ensure_inclusions(c, rows)
    IN  IF inclusion_id \in DOMAIN ensured._id_to_inclusions
        THEN ensured
        ELSE _read_inclusions(rows)

\* Cache._inclusion_id_satisfies, on the set of the stored row
satisfies_any(inclusions, required) ==
    required = << >> \/ \E i \in 1..Len(required) : required[i] \in inclusions

satisfies(inclusions, required) ==
    \A i \in 1..Len(required) : required[i] \in inclusions

\* SELECT ... FROM objects WHERE type=? and id=?: the rows of a primary key
RECURSIVE select_where(_, _, _)
select_where(objects, type_, id_) ==
    IF objects = << >> THEN << >>
    ELSE (IF Head(objects).type = type_ /\ Head(objects).id = id_
          THEN <<Head(objects)>> ELSE << >>)
             \o select_where(Tail(objects), type_, id_)

RECURSIVE delete_where(_, _, _)
delete_where(objects, type_, id_) ==
    IF objects = << >> THEN << >>
    ELSE (IF Head(objects).type = type_ /\ Head(objects).id = id_
          THEN << >> ELSE <<Head(objects)>>)
             \o delete_where(Tail(objects), type_, id_)

\* INSERT OR REPLACE INTO objects: the row that holds the primary key of the
\* new row is deleted before the new row is added
insert_or_replace(objects, row) ==
    Append(delete_where(objects, row.type, row.id), row)

Types == {"release"}

Ids == {"id1", "id2"}

Keys == Types \X Ids

PutIncludes == {<< >>, <<"media", "artists">>, <<"a,b">>}

GetIncludes == {<< >>, <<"artists">>, <<"artists", "discids">>}

Objects == {PyDict("id", "1"), PyList(<<"a", "b">>)}

\* put is given a timestamp or takes the clock's, later than the given ones
PutTimes == {NoneInt, IntArg(5)}

Clock == {10}

AfterTimes == {NoneInt, IntArg(5), IntArg(10)}

\* the explored calls of put: every combination for the first id, one call
\* with an object of its own for the second
PutCalls ==
    {[id_ |-> "id1", includes |-> includes, obj |-> obj,
      timestamp |-> timestamp] :
        includes \in PutIncludes, obj \in Objects, timestamp \in PutTimes}
    \cup {[id_ |-> "id2", includes |-> <<"media", "artists">>,
           obj |-> PyStr("x"), timestamp |-> NoneInt]}

CacheInit ==
    /\ db = [inclusions |-> << >>, objects |-> << >>]
    /\ cache = NewCache
    /\ last_call = [op |-> "none"]
    /\ puts = << >>
    /\ MainIdle
    /\ NoFiles
    /\ WritersIdle
    /\ RipIdle
    /\ pc = "idle"
    /\ toc = << >>
    /\ parts = << >>
    /\ tracks = << >>
    /\ track = 0
    /\ silence_offset = ""
    /\ track_1_is_audio = FALSE
    /\ cuesheet = << >>
    /\ result = ""
    /\ err = NoErr
    /\ stdout = << >>
    /\ arg_x = ""
    /\ arg_y = ""
    /\ parsed = None
    /\ formatted = ""
    /\ summed = None

not_cache == <<conversion, stdout, tvars, mvars, fvars, rvars>>

\* the Cache object of a call: the one of the long-lived process, or the new
\* one of a process that makes this call and exits
Self(own) == IF own THEN cache ELSE NewCache

\* Cache.put: the row of the inclusions, then the row of the object; `now` is
\* what time.time() gives when no timestamp is passed
Put(own, type_, id_, includes, obj, timestamp, now) ==
    LET ts == IF timestamp.none THEN now ELSE timestamp.val
        got == _get_id_for_includes(Self(own), db.inclusions, includes)
        key == <<type_, id_>>
        row == [type |-> type_, id |-> id_, inclusion_id |-> got.id,
                timestamp |-> ts, contents |-> json_dumps(obj)]
    IN  /\ cache' = IF own THEN got.cache ELSE cache
        /\ IF got.raised # ""
           THEN /\ db' = db
                /\ puts' = puts
                /\ last_call' = [op |-> "put", raised |-> got.raised]
           ELSE /\ db' = [inclusions |-> got.rows,
                          objects |-> insert_or_replace(db.objects, row)]
                /\ puts' = (key :> [includes |-> frozenset(includes),
                                    obj |-> obj, timestamp |-> ts]) @@ puts
                /\ last_call' = [op |-> "put", raised |-> ""]
        /\ UNCHANGED not_cache

\* Cache.get
Get(own, type_, id_, includes, after) ==
    LET rows == select_where(db.objects, type_, id_)
        row == Head(rows)
        read == _get_inclusions_by_id(Self(own), db.inclusions,
                                      row.inclusion_id)
        returned ==
            IF rows = << >> THEN PyNone
            ELSE IF ~satisfies(read._id_to_inclusions[row.inclusion_id],
                               includes)
            THEN PyNone
            ELSE IF ~after.none /\ row.timestamp < after.val THEN PyNone
            ELSE json_loads(row.contents)
    IN  /\ cache' = IF own /\ rows # << >> THEN read ELSE cache
        /\ last_call' = [op |-> "get", key |-> <<type_, id_>>,
                         includes |-> includes, after |-> after,
                         returned |-> returned]
        /\ UNCHANGED <<db, puts>>
        /\ UNCHANGED not_cache

CachePut ==
    \E own \in BOOLEAN, type_ \in Types, args \in PutCalls, now \in Clock :
        Put(own, type_, args.id_, args.includes, args.obj, args.timestamp,
            now)

CacheGet ==
    \E own \in BOOLEAN, type_ \in Types, id_ \in Ids, includes \in GetIncludes,
       after \in AfterTimes :
        Get(own, type_, id_, includes, after)

CacheNext ==
    \/ CachePut
    \/ CacheGet

CacheSpec == CacheInit /\ [][CacheNext]_vars

-----------------------------------------------------------------------------
(* Vocabulary of the properties: the input groups and the emitted lines.   *)

\* group k has been handled by the loop without raising
Completed(k) == pc \in {"loop", "done", "failed"} /\ 1 <= k /\ k < track

DeclaresType(k) == Len(Group(k)[1]) >= 2

IsAudio(k) == DeclaresType(k) /\ Group(k)[1][2] = "AUDIO"

IsMode1(k) == DeclaresType(k) /\ Group(k)[1][2] = "MODE1"

NumRecs(data, key) == Cardinality({i \in 1..Len(data) : data[i][1] = key})

TheRec(data, key) == data[CHOOSE i \in 1..Len(data) : data[i][1] = key]

TwoDigits(k) == IF k < 10 THEN "0" \o ToString(k) ELSE ToString(k)

\* the words of the emitted lines, grouped: first the lines before the first
\* TRACK line, then one group per TRACK line (the final empty line left out)
RECURSIVE group_lines(_, _, _)
group_lines(ls, groups, cur) ==
    IF ls = << >> THEN Append(groups, cur)
    ELSE IF Head(ls) = "" THEN group_lines(Tail(ls), groups, cur)
    ELSE IF startswith(lstrip(Head(ls)), "TRACK ")
    THEN group_lines(Tail(ls), Append(groups, cur), <<split(Head(ls))>>)
    ELSE group_lines(Tail(ls), groups, Append(cur, split(Head(ls))))

Emitted == group_lines(cuesheet, << >>, << >>)

NumTrackLines == Len(Emitted) - 1

\* the words of the lines emitted for the k-th TRACK line, that line included
TrackOut(k) == IF k > NumTrackLines THEN << >> ELSE Emitted[k + 1]

Kinds(out) == [j \in 1..Len(out) |-> out[j][1]]

IsIndexLine(w) == w[1] = "INDEX"

IndexLines(out) == SelectSeq(out, IsIndexLine)

Frames(tc) == to_fracs(tc).val

FileStart(data) ==
    LET w == TheRec(data, "FILE")[3]
    IN  IF w = "0" THEN 0 ELSE Frames(w)

RECURSIVE SilenceBefore(_)
SilenceBefore(k) ==
    IF k <= 1 THEN 0
    ELSE SilenceBefore(k - 1) +
         (IF IsAudio(k - 1) /\ NumRecs(Group(k - 1), "SILENCE") = 1
          THEN Frames(TheRec(Group(k - 1), "SILENCE")[2]) ELSE 0)

ExpectedStart(k) == FileStart(Group(k)) + SilenceBefore(k)

TrackGroups == 1..(Len(tracks) - 1)

-----------------------------------------------------------------------------
\* C1: within every audio track the emitted lines are TRACK, then FLAGS DCP
\* (if the group has COPY), then ISRC (if any), then the INDEX line(s),
\* whatever the order of the records in the group; and the disc with a
\* CATALOG header and one audio track carrying COPY, ISRC and FILE with start
\* 0 (in any order) yields exactly FILE "data.wav" BINARY, CATALOG, TRACK 01
\* AUDIO, FLAGS DCP, ISRC, INDEX 01 00:00:00 in this order.
ExpectedKinds(data) ==
    <<"TRACK">>
    \o (IF \E i \in 1..Len(data) : data[i] = <<"COPY">> THEN <<"FLAGS">> ELSE << >>)
    \o (IF NumRecs(data, "ISRC") = 1 THEN <<"ISRC">> ELSE << >>)
    \o (IF NumRecs(data, "START") = 1 THEN <<"INDEX", "INDEX">> ELSE <<"INDEX">>)

C1_ExampleToc ==
    /\ Len(toc) = 5
    /\ toc[1] = "CATALOG \"1234567890123\"\n"
    /\ toc[2] = "TRACK AUDIO\n"
    /\ {toc[3], toc[4], toc[5]} =
          {"COPY\n", "ISRC \"US1234567890\"\n", "FILE \"data.wav\" 0 300\n"}

C1_LineOrder ==
    /\ \A k \in TrackGroups :
          Completed(k) /\ IsAudio(k) => Kinds(TrackOut(k)) = ExpectedKinds(Group(k))
    /\ C1_ExampleToc /\ pc \notin {"read", "make", "loop"} =>
          /\ pc = "done"
          /\ [i \in 1..Len(cuesheet) |-> split(cuesheet[i])] =
                << <<"FILE", "\"data.wav\"", "BINARY">>,
                   <<"CATALOG", "1234567890123">>,
                   <<"TRACK", "01", "AUDIO">>,
                   <<"FLAGS", "DCP">>,
                   <<"ISRC", "US1234567890">>,
                   <<"INDEX", "01", "00:00:00">>,
                   << >> >>

C1_Witness ==
    /\ pc = "done"
    /\ toc = <<"CATALOG \"1234567890123\"\n", "TRACK AUDIO\n",
               "FILE \"data.wav\" 0 300\n", "ISRC \"US1234567890\"\n", "COPY\n">>

\* C2: an audio track with a START record emits exactly two INDEX lines,
\* INDEX 00 at track_start then INDEX 01 at track_start + START; without
\* START it emits exactly one INDEX line, INDEX 01 at track_start.
C2_IndexLines ==
    \A k \in TrackGroups :
        Completed(k) /\ IsAudio(k) =>
            LET idx == IndexLines(TrackOut(k))
                data == Group(k)
            IN  IF NumRecs(data, "START") >= 1
                THEN /\ Len(idx) = 2
                     /\ idx[1][2] = "00"
                     /\ Frames(idx[1][3]) = ExpectedStart(k)
                     /\ idx[2][2] = "01"
                     /\ Frames(idx[2][3]) =
                           ExpectedStart(k) + Frames(TheRec(data, "START")[2])
                ELSE /\ Len(idx) = 1
                     /\ idx[1][2] = "01"
                     /\ Frames(idx[1][3]) = ExpectedStart(k)

C2_Witness ==
    /\ pc = "done"
    /\ \E k \in TrackGroups :
          IsAudio(k) /\ NumRecs(Group(k), "START") = 1 /\ ExpectedStart(k) > 0
    /\ \E k \in TrackGroups : IsAudio(k) /\ NumRecs(Group(k), "START") = 0

\* C3: the track_start of an audio track is its FILE start (0 read as
\* 00:00:00) plus the SILENCE durations of the audio tracks strictly before
\* it; its own SILENCE moves only the later tracks.
C3_TrackStart ==
    /\ \A k \in TrackGroups :
          Completed(k) /\ IsAudio(k) =>
              Frames(IndexLines(TrackOut(k))[1][3]) =
                  FileStart(Group(k)) + SilenceBefore(k)
    /\ pc \in {"loop", "done"} => Frames(silence_offset) = SilenceBefore(track)

C3_Witness ==
    /\ pc = "done"
    /\ Len(tracks) = 4
    /\ IsAudio(3)
    /\ NumRecs(Group(3), "SILENCE") = 1
    /\ SilenceBefore(3) = 148

\* C4: a MODE1 group at position N emits exactly TRACK <NN> MODE1/2048 and
\* INDEX 01 00:00:00, whatever silence_offset is and whatever FILE, START or
\* SILENCE records it carries.
C4_Mode1Lines ==
    \A k \in TrackGroups :
        Completed(k) /\ IsMode1(k) =>
            TrackOut(k) = << <<"TRACK", TwoDigits(k), "MODE1/2048">>,
                             <<"INDEX", "01", "00:00:00">> >>

C4_Witness ==
    /\ pc = "done"
    /\ \E k \in TrackGroups :
          /\ IsMode1(k)
          /\ SilenceBefore(k) > 0
          /\ NumRecs(Group(k), "START") = 1
          /\ NumRecs(Group(k), "SILENCE") = 1
    /\ \E k \in TrackGroups : IsMode1(k) /\ NumRecs(Group(k), "FILE") = 2

-----------------------------------------------------------------------------
\* the loop raised while handling group k
FailedAt(k) == pc = "failed" /\ err.track = k

\* the loop has handled group k: passed it or raised in it
Handled(k) == (pc \in {"loop", "done", "failed"} /\ k < track) \/ FailedAt(k)

AllGroups == 0..(Len(tracks) - 1)

Singletons == {"ISRC", "FILE", "START", "SILENCE"}

DupKeys(data) == {key \in Singletons : NumRecs(data, key) >= 2}

\* a FILE record with three operands whose start is 0 or a timecode
ValidFile(data) ==
    /\ NumRecs(data, "FILE") = 1
    /\ Len(TheRec(data, "FILE")) >= 4
    /\ \/ TheRec(data, "FILE")[3] = "0"
       \/ to_fracs(TheRec(data, "FILE")[3]).ok

\* C5 as stated: a header with two or more CATALOG records, or any
\* non-header group with two or more records of one singleton field, makes
\* the conversion fail with AmbiguousField for that key.
C5_AnyGroupAmbiguous ==
    \A k \in AllGroups :
        /\ Handled(k) /\ k = 0 /\ NumRecs(Group(k), "CATALOG") >= 2 =>
              FailedAt(k) /\ AmbiguousField(err, "CATALOG")
        /\ Handled(k) /\ k >= 1 /\ (IsAudio(k) \/ IsMode1(k))
              /\ DupKeys(Group(k)) # {} =>
              FailedAt(k) /\ \E key \in DupKeys(Group(k)) : AmbiguousField(err, key)

\* C5 (amended): when the loop reaches a header with two or more CATALOG
\* records it fails with AmbiguousField(CATALOG); when it reaches an AUDIO
\* group with a repeated singleton field (ISRC, FILE, START, SILENCE) it fails
\* in that group, and an AmbiguousField raised there names a repeated key (a
\* repeated ISRC always gives AmbiguousField(ISRC)); a MODE1 group is never
\* checked and passes; a group without the optional fields is accepted.
C5_AudioAmbiguous ==
    \A k \in AllGroups :
        /\ Handled(k) /\ k = 0 /\ NumRecs(Group(k), "CATALOG") >= 2 =>
              FailedAt(k) /\ AmbiguousField(err, "CATALOG")
        /\ Handled(k) /\ k >= 1 /\ IsAudio(k) /\ DupKeys(Group(k)) # {} =>
              /\ FailedAt(k)
              /\ err.at = "len(matches) < 2" => err.key \in DupKeys(Group(k))
              /\ "ISRC" \in DupKeys(Group(k)) => AmbiguousField(err, "ISRC")
        /\ Handled(k) /\ k >= 1 /\ IsMode1(k) => ~FailedAt(k)
        /\ Handled(k) /\ k = 0 /\ NumRecs(Group(k), "CATALOG") = 0 => ~FailedAt(k)
        /\ Handled(k) /\ k >= 1 /\ IsAudio(k) /\ ValidFile(Group(k))
              /\ NumRecs(Group(k), "ISRC") = 0
              /\ NumRecs(Group(k), "START") = 0
              /\ NumRecs(Group(k), "SILENCE") = 0 => ~FailedAt(k)

C5_Witness ==
    /\ pc = "failed"
    /\ AmbiguousField(err, "START")
    /\ \E k \in AllGroups :
          /\ k >= 1 /\ FailedAt(k) /\ IsAudio(k)
          /\ DupKeys(Group(k)) = {"START"}
          /\ NumRecs(Group(k), "ISRC") = 0

\* C6 as stated: a non-header group (audio or MODE1) with no FILE record
\* makes the conversion fail with MissingField(FILE).
C6_AnyGroupNeedsFile ==
    \A k \in TrackGroups :
        Handled(k) /\ (IsAudio(k) \/ IsMode1(k)) /\ NumRecs(Group(k), "FILE") = 0 =>
            FailedAt(k) /\ MissingField(err, "FILE")

\* C6 (amended): FILE is required exactly once in every AUDIO group: an AUDIO
\* group without a FILE record fails in that group, with MissingField(FILE)
\* unless its ISRC extraction fails first, and with two or more FILE records it
\* fails too; a MODE1 group needs no FILE record.
C6_AudioNeedsFile ==
    \A k \in TrackGroups :
        /\ Handled(k) /\ IsAudio(k) /\ NumRecs(Group(k), "FILE") = 0 =>
              /\ FailedAt(k)
              /\ get_isrc(Group(k)).ok => MissingField(err, "FILE")
        /\ Handled(k) /\ IsAudio(k) /\ NumRecs(Group(k), "FILE") >= 2 => FailedAt(k)
        /\ Handled(k) /\ IsMode1(k) => ~FailedAt(k)
        /\ pc = "failed" /\ err.at = "missing_ok" => err.key = "FILE"

C6_Witness ==
    /\ pc = "failed"
    /\ MissingField(err, "FILE")
    /\ \E k \in TrackGroups : FailedAt(k) /\ IsAudio(k) /\ NumRecs(Group(k), "FILE") = 0
    /\ \E k \in TrackGroups : Completed(k) /\ IsMode1(k) /\ NumRecs(Group(k), "FILE") = 0

BadType(k) == DeclaresType(k) /\ Group(k)[1][2] \notin {"AUDIO", "MODE1"}

\* C7 as stated: a non-header group, at any position, whose declared type is
\* neither AUDIO nor MODE1 makes the conversion fail with UnknownTrackType and
\* return no cue text (conversions ended by an exception outside the design's
\* five failures are left aside here: they are the matter of C9).
C7_AlwaysUnknownTrackType ==
    \A k \in TrackGroups :
        BadType(k) /\ (pc = "done" \/ (pc = "failed" /\ InTaxonomy(err))) =>
            pc = "failed" /\ UnknownTrackType(err) /\ result = ""

\* C7 (amended): such a group makes the conversion fail and return no cue
\* text; the loop never passes it, and the failure is UnknownTrackType unless
\* the header or an earlier group fails first.
C7_NeverPassesUnknownType ==
    \A k \in TrackGroups :
        BadType(k) =>
            /\ pc # "done"
            /\ result = ""
            /\ track <= k
            /\ pc = "failed" => err.track <= k
            /\ FailedAt(k) => UnknownTrackType(err)

C7_Witness ==
    /\ pc = "failed"
    /\ UnknownTrackType(err)
    /\ Len(tracks) = 4
    /\ FailedAt(2)
    /\ BadType(2)
    /\ IsAudio(1)
    /\ NumTrackLines = 1
    /\ result = ""

\* the lines read_cdrdao_toc keeps: neither blank nor a comment
Kept(l) == ~(strip(l) = "" \/ startswith(lstrip(l), "//"))

KeptLines(f) == SelectSeq(f, Kept)

\* the running sum goes negative after some line of ls, or ends nonzero
RECURSIVE Unbalances(_, _)
Unbalances(ls, sum) ==
    IF ls = << >> THEN sum # 0
    ELSE LET next == sum + count(Head(ls), "{") - count(Head(ls), "}")
         IN  next < 0 \/ Unbalances(Tail(ls), next)

Unbalanced(f) == Unbalances(KeptLines(f), 0)

\* C8: the brace counter is the running sum of (#'{' - #'}') over the kept
\* lines; if it is negative after some line, or nonzero at the end of the
\* input, the conversion fails with UnbalancedBraces and produces no output
\* (and it fails so only then). Stated of the state read_cdrdao_toc leaves
\* and of the states where the conversion has ended: toc never changes.
C8_UnbalancedBraces ==
    pc \in {"make", "done", "failed"} =>
        IF UnbalancedBraces(err)
        THEN /\ Unbalanced(toc)
             /\ pc = "failed"
             /\ result = ""
             /\ cuesheet = << >>
        ELSE ~Unbalanced(toc)

C8_Witness ==
    /\ pc = "failed"
    /\ err.at = "not parts"
    /\ \E i \in 1..Len(toc) : toc[i] = "CD_TEXT {\n"
    /\ \E i \in 1..Len(toc) : toc[i] = "TRACK AUDIO\n"
    /\ \A i \in 1..Len(toc) : toc[i] # "  }\n"

\* C9: a conversion that fails, fails with one of UnbalancedBraces,
\* AmbiguousField, MissingField, UnknownTrackType, MalformedTimecode; no other
\* kind of failure is possible.
C9_OnlyTaxonomyErrors == pc = "failed" => InTaxonomy(err)

\* C10: the Nth record that starts with TRACK is emitted as track N: a
\* finished conversion has one TRACK line per such record, numbered 1, 2, ...
TrackRecords == {i \in 1..Len(parts) : startswith(parts[i], "TRACK ")}

C10_EveryTrackRecordNumbered ==
    pc = "done" =>
        /\ NumTrackLines = Cardinality(TrackRecords)
        /\ \A k \in 1..NumTrackLines : TrackOut(k)[1][2] = TwoDigits(k)

-----------------------------------------------------------------------------
\* the header group has been handled by the loop without raising
HeaderDone == pc \in {"loop", "done", "failed"} /\ track >= 1

CatalogLines == {i \in 1..Len(cuesheet) : startswith(lstrip(cuesheet[i]), "CATALOG")}

\* C11: once the header group (the first group of the splitter) is handled,
\* the first output line is FILE <name> BINARY where <name> is "data.wav" if
\* and only if the group after the header is of type AUDIO and "data_1"
\* otherwise; with a CATALOG record in the header the CATALOG line is the
\* second line and the only CATALOG line, without one there is no CATALOG
\* line; a finished conversion returns text that starts with that FILE line.
C11_FileAndCatalog ==
    HeaderDone =>
        /\ cuesheet[1] = (IF IsAudio(1) THEN "FILE \"data.wav\" BINARY"
                                        ELSE "FILE \"data_1\" BINARY")
        /\ NumRecs(Group(0), "CATALOG") = 1 =>
              /\ split(cuesheet[2]) =
                    (LET w == TheRec(Group(0), "CATALOG")[2]
                     IN  <<"CATALOG", SubSeq(w, 2, Len(w) - 1)>>)
              /\ lstrip(cuesheet[2]) = cuesheet[2]
              /\ CatalogLines = {2}
        /\ NumRecs(Group(0), "CATALOG") = 0 => CatalogLines = {}
        /\ pc = "done" => startswith(result, cuesheet[1] \o "\n")

C11_Witness ==
    /\ pc = "done"
    /\ IsMode1(1)
    /\ NumRecs(Group(0), "CATALOG") = 1
    /\ cuesheet[1] = "FILE \"data_1\" BINARY"
    /\ cuesheet[2] = "CATALOG 1234567890123"

-----------------------------------------------------------------------------
IsFlagsLine(w) == w[1] = "FLAGS"

FlagsLines(out) == SelectSeq(out, IsFlagsLine)

CopyRecs(data) == {i \in 1..Len(data) : data[i] = <<"COPY">>}

\* C12: an audio track emits the line FLAGS DCP, once, if and only if its
\* group has a record whose tokens are exactly COPY; a group whose only copy
\* record is NO COPY, or that has none, emits no FLAGS line at all.
C12_FlagsIffCopy ==
    \A k \in TrackGroups :
        Completed(k) /\ IsAudio(k) =>
            FlagsLines(TrackOut(k)) =
                (IF CopyRecs(Group(k)) # {} THEN << <<"FLAGS", "DCP">> >> ELSE << >>)

C12_Witness ==
    /\ pc = "done"
    /\ IsAudio(1)
    /\ \E i \in 1..Len(Group(1)) : Group(1)[i] = <<"NO", "COPY">>
    /\ CopyRecs(Group(1)) = {}
    /\ FlagsLines(TrackOut(1)) = << >>

-----------------------------------------------------------------------------
\* the kept lines outside every block (brace depth 0 before the line), and
\* the kept lines inside a block
RECURSIVE top_lines(_, _)
top_lines(ls, depth) ==
    IF ls = << >> THEN << >>
    ELSE (IF depth = 0 THEN <<Head(ls)>> ELSE << >>)
         \o top_lines(Tail(ls), depth + count(Head(ls), "{") - count(Head(ls), "}"))

RECURSIVE inner_lines(_, _)
inner_lines(ls, depth) ==
    IF ls = << >> THEN << >>
    ELSE (IF depth > 0 THEN <<Head(ls)>> ELSE << >>)
         \o inner_lines(Tail(ls), depth + count(Head(ls), "{") - count(Head(ls), "}"))

TopLines == top_lines(KeptLines(toc), 0)

InnerLines == inner_lines(KeptLines(toc), 0)

Unquoted(w) ==
    IF Len(w) >= 2 /\ startswith(w, "\"") /\ endswith(w, "\"")
    THEN SubSeq(w, 2, Len(w) - 1) ELSE w

\* the operands of a line: its words after the first, quotes taken off
Operands(l) == {Unquoted(split(l)[j]) : j \in 2..Len(split(l))}

InnerOnlyOperands ==
    UNION {Operands(InnerLines[i]) : i \in 1..Len(InnerLines)}
        \ UNION {Operands(TopLines[i]) : i \in 1..Len(TopLines)}

EmittedWords ==
    UNION {{split(cuesheet[i])[j] : j \in 1..Len(split(cuesheet[i]))} :
              i \in 1..Len(cuesheet)}

\* the conversion has ended and read_cdrdao_toc had returned records
ReadDone == pc \in {"done", "failed"} /\ parts # << >>

IsIsrcLine(w) == w[1] = "ISRC"

\* C13: a line inside a brace-delimited block is never matched as a
\* directive. The logical records are exactly the lines outside every block,
\* each block folded into the record of its opening line; a new group starts
\* only at a record whose own first line starts with TRACK; an
\* AmbiguousField or MissingField failure is decided by the first tokens of
\* the records alone; and no FLAGS, ISRC or CATALOG line, and no operand
\* that occurs only inside a block, is ever emitted for a line inside a block.
C13_BlocksAreOpaque ==
    ReadDone /\ InnerLines # << >> =>
        /\ Len(parts) = Len(TopLines)
        /\ \A i \in 1..Len(parts) :
              /\ split(parts[i])[1] = split(TopLines[i])[1]
              /\ startswith(parts[i], "TRACK ") = startswith(lstrip(TopLines[i]), "TRACK ")
        /\ tracks # << >> =>
              /\ Len(tracks) = Cardinality({i \in 2..Len(TopLines) :
                                    startswith(lstrip(TopLines[i]), "TRACK ")}) + 1
              /\ \A k \in AllGroups :
                    /\ \A key \in FieldKeys :
                          /\ FailedAt(k) /\ AmbiguousField(err, key) =>
                                NumRecs(Group(k), key) >= 2
                          /\ FailedAt(k) /\ MissingField(err, key) =>
                                NumRecs(Group(k), key) = 0
                    /\ Completed(k) /\ IsAudio(k) =>
                          /\ Len(FlagsLines(TrackOut(k))) =
                                (IF CopyRecs(Group(k)) # {} THEN 1 ELSE 0)
                          /\ Len(SelectSeq(TrackOut(k), IsIsrcLine)) =
                                NumRecs(Group(k), "ISRC")
              /\ HeaderDone => Cardinality(CatalogLines) = NumRecs(Group(0), "CATALOG")
              /\ EmittedWords \cap InnerOnlyOperands = {}

C13_Witness ==
    /\ pc = "done"
    /\ Len(tracks) = 2
    /\ \E i \in 1..Len(InnerLines) : split(InnerLines[i])[1] = "ISRC"
    /\ \E i \in 1..Len(InnerLines) : split(InnerLines[i])[1] = "TRACK"
    /\ NumRecs(Group(1), "ISRC") = 1
    /\ \E i \in 1..Len(Group(1)) : Group(1)[i][1] = "CD_TEXT" /\ Len(Group(1)[i]) > 3
    /\ SelectSeq(TrackOut(1), IsIsrcLine) = << <<"ISRC", "US1234567890">> >>

-----------------------------------------------------------------------------
(* Timecode texts                                                           *)

Fields(t) == split_sep(t, ":")

\* three fields of decimal digits, no sign
Unsigned(t) ==
    /\ Len(Fields(t)) = 3
    /\ \A i \in 1..3 : Fields(t)[i] # "" /\ all_digits(Fields(t)[i])

FieldVal(t, i) == digits_val(Fields(t)[i], 0)

\* MM:SS:FF with two-digit fields (minutes may be longer, without a leading
\* zero then)
TwoDigitForm(t) ==
    /\ Unsigned(t)
    /\ Len(Fields(t)[2]) = 2
    /\ Len(Fields(t)[3]) = 2
    /\ Len(Fields(t)[1]) >= 2
    /\ Len(Fields(t)[1]) > 2 => Head(Fields(t)[1]) # "0"

CanonicalForm(t) == TwoDigitForm(t) /\ FieldVal(t, 2) < 60 /\ FieldVal(t, 3) < 75

\* C14 as stated: for every timecode t in MM:SS:FF form with frames in
\* [0,75), formatting the frame count parsed from t gives back t.
C14_RoundTripFramesOnly ==
    pc \in {"offset_sum", "returned"} /\ TwoDigitForm(arg_x) /\ FieldVal(arg_x, 3) < 75 =>
        parsed.ok /\ formatted = arg_x

\* C14 (amended): for every timecode t in MM:SS:FF form with frames in
\* [0,75) and seconds in [0,60), formatting the frame count parsed from t
\* gives back t; for any t of three unsigned integer fields the formatted
\* text is in that form and parses to the same frame count, and it differs
\* from t whenever t is not in that form.
C14_RoundTripCanonical ==
    pc \in {"offset_sum", "returned"} /\ Unsigned(arg_x) =>
        /\ parsed.ok
        /\ CanonicalForm(formatted)
        /\ to_fracs(formatted) = parsed
        /\ CanonicalForm(arg_x) <=> formatted = arg_x

C14_Witness ==
    /\ pc = "returned"
    /\ arg_x = "100:59:74"
    /\ parsed = Ok(454499)
    /\ formatted = "100:59:74"

\* C15 as stated: offset_sum(t, "00:00:00") = t for every valid timecode t
\* (three two-digit fields, frames below 75), and a frame count of zero
\* renders as 00:00:00.
C15_IdentityAnyValid ==
    /\ pc = "returned" /\ arg_y = "00:00:00"
          /\ TwoDigitForm(arg_x) /\ FieldVal(arg_x, 3) < 75 => summed = Ok(arg_x)
    /\ pc = "returned" /\ parsed = Ok(0) => formatted = "00:00:00"

\* C15 (amended): offset_sum(t, "00:00:00") = t, and offset_sum("00:00:00",
\* t) = t, for every timecode t in MM:SS:FF form with seconds in [0,60) and
\* frames in [0,75); for any other t of three unsigned integer fields the sum
\* is another text with the frame count of t; a frame count of zero renders
\* as 00:00:00.
C15_IdentityCanonical ==
    pc = "returned" =>
        /\ arg_y = "00:00:00" /\ Unsigned(arg_x) =>
              /\ summed.ok
              /\ to_fracs(summed.val) = parsed
              /\ CanonicalForm(arg_x) <=> summed.val = arg_x
        /\ arg_x = "00:00:00" /\ CanonicalForm(arg_y) => summed = Ok(arg_y)
        /\ parsed = Ok(0) => formatted = "00:00:00"

C15_Witness ==
    /\ pc = "returned"
    /\ arg_y = "00:00:00"
    /\ arg_x = "99:59:74"
    /\ summed = Ok("99:59:74")

\* the frame count a text of three unsigned fields stands for
FrameCount(t) == FieldVal(t, 1) * 60 * 75 + FieldVal(t, 2) * 75 + FieldVal(t, 3)

-----------------------------------------------------------------------------
\* exactly three colon-separated integer fields
Parseable(t) == Len(Fields(t)) = 3 /\ \A i \in 1..3 : int_ok(Fields(t)[i])

\* the timecode fields of a group that carry a value that is no timecode
MalformedIn(data) ==
    {key \in {"START", "SILENCE"} :
        \E i \in 1..Len(data) :
            data[i][1] = key /\ Len(data[i]) >= 2 /\ ~Parseable(data[i][2])}
    \cup {key \in {"FILE"} :
        \E i \in 1..Len(data) :
            /\ data[i][1] = key /\ Len(data[i]) >= 3
            /\ data[i][3] # "0" /\ ~Parseable(data[i][3])}

\* nothing else is wrong with the group: no field repeated, one FILE record
\* with name, start and length, a quoted ISRC, START and SILENCE with a value
WellFormedButTimecodes(data) ==
    /\ DupKeys(data) = {}
    /\ NumRecs(data, "FILE") = 1
    /\ Len(TheRec(data, "FILE")) >= 4
    /\ get_isrc(data).ok
    /\ \A i \in 1..Len(data) : data[i][1] \in {"START", "SILENCE"} => Len(data[i]) >= 2

\* C17 as stated: an audio track with a START value, a SILENCE value or a
\* FILE start value (other than 0) that is not three colon-separated integer
\* fields makes the conversion fail with MalformedTimecode (conversions ended
\* by an exception outside the design's five failures are left aside: C9).
C17_AlwaysMalformedTimecode ==
    \A k \in TrackGroups :
        IsAudio(k) /\ MalformedIn(Group(k)) # {}
            /\ (pc = "done" \/ (pc = "failed" /\ InTaxonomy(err))) =>
            pc = "failed" /\ MalformedTimecode(err)

\* C17 (amended): the loop never gets past an audio track with such a value:
\* the conversion fails there at the latest, with MalformedTimecode when
\* nothing else is wrong with the group (also for a SILENCE value on the last
\* track); and a MalformedTimecode failure only comes from such a value on
\* an audio track.
C17_MalformedTimecode ==
    /\ \A k \in TrackGroups :
          Handled(k) /\ IsAudio(k) /\ MalformedIn(Group(k)) # {} =>
              /\ FailedAt(k)
              /\ result = ""
              /\ WellFormedButTimecodes(Group(k)) => MalformedTimecode(err)
    /\ pc = "failed" /\ MalformedTimecode(err) =>
          /\ err.track \in TrackGroups
          /\ IsAudio(err.track)
          /\ MalformedIn(Group(err.track)) # {}
    /\ \A k \in TrackGroups : IsAudio(k) /\ MalformedIn(Group(k)) # {} => pc # "done"

C17_Witness ==
    /\ pc = "failed"
    /\ MalformedTimecode(err)
    /\ Len(tracks) = 3
    /\ FailedAt(2)
    /\ IsAudio(2)
    /\ MalformedIn(Group(2)) = {"SILENCE"}
    /\ NumTrackLines = 2
    /\ Len(IndexLines(TrackOut(2))) = 1

-----------------------------------------------------------------------------
LeadingSpaces(l) == Len(l) - Len(lstrip(l))

\* the emitted lines that carry a directive (the final empty line left out)
DirectiveLines == {i \in 1..Len(cuesheet) : cuesheet[i] # ""}

Directive(i) == split(cuesheet[i])[1]

\* C18 as stated: FILE, CATALOG and TRACK lines have no leading spaces and
\* FLAGS, ISRC and INDEX lines have exactly two.
C18_TrackAtLevelZero ==
    \A i \in DirectiveLines :
        /\ Directive(i) \in {"FILE", "CATALOG", "TRACK"} => LeadingSpaces(cuesheet[i]) = 0
        /\ Directive(i) \in {"FLAGS", "ISRC", "INDEX"} => LeadingSpaces(cuesheet[i]) = 2

\* C18 (amended): indentation is two spaces per nesting level, with FILE
\* and CATALOG lines at level 0 (no leading spaces), TRACK lines at level 1
\* (exactly two) and FLAGS, ISRC and INDEX lines at level 2 (exactly four);
\* after the indentation the words of a line are separated by one space
\* (stated of the lines emitted by the time the conversion ends).
C18_Indentation ==
    pc \in {"done", "failed"} =>
    \A i \in DirectiveLines :
        /\ Directive(i) \in {"FILE", "CATALOG", "TRACK", "FLAGS", "ISRC", "INDEX"}
        /\ Directive(i) \in {"FILE", "CATALOG"} => LeadingSpaces(cuesheet[i]) = 0
        /\ Directive(i) = "TRACK" => LeadingSpaces(cuesheet[i]) = 2
        /\ Directive(i) \in {"FLAGS", "ISRC", "INDEX"} => LeadingSpaces(cuesheet[i]) = 4
        /\ lstrip(cuesheet[i]) = join(" ", split(cuesheet[i]))

C18_Witness ==
    /\ pc = "done"
    /\ cuesheet = <<"FILE \"data.wav\" BINARY",
                    "CATALOG 1234567890123",
                    "  TRACK 01 AUDIO",
                    "    FLAGS DCP",
                    "    ISRC US1234567890",
                    "    INDEX 01 00:00:00",
                    "">>

-----------------------------------------------------------------------------
\* the returned text cut at its newlines
ResultLines == split_sep(result, "\n")

\* C19: the text a successful conversion returns ends with a newline: it is
\* the emitted directive lines, each followed by exactly one newline, with no
\* blank line among them and nothing after the last newline.
C19_NewlineTerminated ==
    pc = "done" =>
        /\ endswith(result, "\n")
        /\ Len(ResultLines) = Cardinality(DirectiveLines) + 1
        /\ ResultLines[Len(ResultLines)] = ""
        /\ \A i \in 1..(Len(ResultLines) - 1) :
              /\ strip(ResultLines[i]) # ""
              /\ ResultLines[i] = cuesheet[i]

C19_Witness ==
    /\ pc = "done"
    /\ result = "FILE \"data_1\" BINARY\n  TRACK 01 MODE1/2048\n    INDEX 01 00:00:00\n"

-----------------------------------------------------------------------------
C20_PrintsOnlyMatches ==
    /\ pc # "failed" => stdout = << >>
    /\ pc = "failed" =>
          IF \E key \in FieldKeys : AmbiguousField(err, key)
          THEN Len(stdout) = 1 /\ endswith(stdout[1], "]]\n")
          ELSE stdout = << >>

C20_Printed ==
    /\ pc = "failed"
    /\ AmbiguousField(err, "START")
    /\ stdout = <<"[['2:0'], ['00:02:00']]\n">>

-----------------------------------------------------------------------------
(* The command line                                                        *)

\* the program has exited and toc_to_cuesheet had returned a cue text
Converted == pc = "exited" /\ err.kind \in {"none", "FileNotFoundError"}

\* the stored contents of the file --compare names are the cue text
ReferenceIsResult ==
    /\ args_compare.val \in DOMAIN files
    /\ disk[files[args_compare.val]].data = result

\* C21: when the program has exited: without --compare the cue text, and
\* nothing else, is on standard output and the status is 0; with --compare
\* nothing is on standard output and the status is 0 if the stored contents
\* of the reference file are exactly the cue text and 1 otherwise.
C21_CompareExactly ==
    pc = "exited" =>
        IF args_compare.given
        THEN /\ stdout = << >>
             /\ exit_status = (IF Converted /\ ReferenceIsResult THEN 0 ELSE 1)
        ELSE Converted => join("", stdout) = result /\ exit_status = 0

\* a reference file with \r\n line ends was compared and the status is 0
C21_CrLfAccepted ==
    /\ pc = "exited"
    /\ truthy(args_compare)
    /\ Converted
    /\ ~ReferenceIsResult
    /\ exit_status = 0

-----------------------------------------------------------------------------
(* Update through a temporary and a rename                                 *)

\* whether the path exists and, if so, what it holds
HoldsIn(dir, inodes, path) ==
    IF path \in DOMAIN dir THEN <<TRUE, inodes[dir[path]].data>> ELSE <<FALSE, "">>

Holds(path) == HoldsIn(files, disk, path)

\* the parts process w has written, in one piece
Written(w) == join("", SubSeq(wr[w].contents, 1, wr[w].written))

\* the step is the rename of process w
Renames(w) == wr[w].pc = "rename" /\ wr'[w].pc = "returned"

\* the step takes process w out of the except clauses after its body raised
LeavesAfterRaise(w) ==
    wr[w].pc = "except" /\ wr[w].exc \in BodyExceptions /\ wr'[w].pc # "except"

\* one step of process w keeps what tempfile_to_update promises
C22_Step(w) ==
    /\ Renames(w) =>
          /\ HoldsIn(files', disk', wr[w].path) = <<TRUE, Written(w)>>
          /\ wr[w].temp_path \notin DOMAIN files'
    /\ LeavesAfterRaise(w) =>
          /\ wr[w].temp_path \notin DOMAIN files'
          /\ ~wr'[w].renamed
    /\ (wr'[w] # wr[w] /\ ~Renames(w)) =>
          HoldsIn(files', disk', wr'[w].path) = HoldsIn(files, disk, wr'[w].path)

\* C22: when the body and the close finish without exception, the rename
\* leaves the target with exactly what was written to the temporary, and the
\* temporary is gone; when the body raises, no step of the update changes
\* what the target holds, and the temporary is removed.
C22_UpdateOrUntouched == [][\A w \in Writers : C22_Step(w)]_vars

\* one process has updated the target and holds it; the body of the other raised
C22_Witness ==
    \E w \in Writers, v \in Writers :
        /\ wr[w].pc = "returned" /\ wr[w].renamed
        /\ Holds(Target) = <<TRUE, Written(w)>>
        /\ wr[w].temp_path \notin DOMAIN files
        /\ wr[v].pc = "raised" /\ wr[v].exc \in BodyExceptions
        /\ wr[v].written > 0

\* what the target holds from the start, and what each writer hands over
CompleteVersions == {InitialContents} \cup {join("", Contents(w)) : w \in Writers}

\* a writer is between two writes of its body
MidBody(w) == wr[w].pc = "body" /\ 0 < wr[w].written /\ wr[w].written < Len(wr[w].contents)

\* C23: the file a reader has opened under the target path holds, at every
\* moment of the reading, the complete previous or the complete new contents,
\* and what the reader has read when it reaches the end is one of them.
C23_ReaderSeesComplete ==
    /\ rd.pc \in {"reading", "done"} => disk[rd.f].data \in CompleteVersions
    /\ rd.pc = "done" => rd.seen \in CompleteVersions

\* the reader opened and read the target to its end while a writer was
\* between two writes, and read the previous contents
C23_Witness ==
    /\ rd.pc = "done"
    /\ rd.seen = InitialContents
    /\ \E w \in Writers : MidBody(w)

\* no file is written by two processes, and the target is never a file in
\* the making
Unmingled ==
    /\ \A f \in 1..Len(disk) : Cardinality(disk[f].by) <= 1
    /\ \A w \in Writers :
          wr[w].pc \in {"body", "rename", "except"} => disk[wr[w].f].by \subseteq {w}
    /\ Target \in DOMAIN files => disk[files[Target]].data \in CompleteVersions

\* a step that changes what the target holds is the rename of a writer and
\* leaves the target with that writer's complete contents
InTurn ==
    Holds(Target)' # Holds(Target) =>
        \E w \in Writers :
            /\ Renames(w)
            /\ Holds(Target)' = <<TRUE, join("", Contents(w))>>

\* C24: with two processes updating the target, no file is ever written by
\* both, the target always holds the initial contents or the complete
\* contents of one writer, and it changes only by the rename of a writer, to
\* that writer's complete contents: first the initial contents, then those of
\* the writer whose rename comes first, then those of the other.
C24_RenamesInTurn == [](Unmingled) /\ [][InTurn]_vars

\* both writers, running under one process id, have renamed; the target
\* holds the contents of the second
C24_Witness ==
    /\ wr[1].renamed /\ wr[2].renamed
    /\ wr[1].pid = wr[2].pid
    /\ wr[1].temp_path # wr[2].temp_path
    /\ Holds(Target) = <<TRUE, join("", Contents(2))>>
    /\ disk[wr[1].f].data = join("", Contents(1))

\* the step of process w through the except clauses
C25_Step(w) ==
    LeavesAfterRaise(w) =>
        /\ wr[w].temp_path \notin DOMAIN files'
        /\ ~wr'[w].renamed
        /\ wr'[w].exc = wr[w].exc
        /\ wr'[w].pc = (IF wr[w].exc = "AbortUpdate" THEN "returned" ELSE "raised")

-----------------------------------------------------------------------------
(* The batch driver                                                        *)

\* every call of rip_one_disc so far ended in a conversion failure, and the
\* present call has not got beyond the conversion
OnlyConversionFailures ==
    /\ \A i \in 1..Len(rip.ended) : rip.ended[i] = "conversion failed"
    /\ rip.pc \in {"start", "toc", "crashed"} \/ (rip.pc = "cuesheet" /\ pc # "done")

\* no temporary of the cue file exists
NoCueTemporary ==
    \A seq \in SeqSuffixes, attempt \in {0, 1} :
        temp_name(cue_path(Disc), wr[RipProc].pid, attempt, seq) \notin DOMAIN files

\* a step taken while the conversion runs or has failed changes no file, and
\* a step that changes the cue file comes after the conversion returned and
\* gives the file the returned text
CueAfterConversion ==
    /\ (rip.pc = "cuesheet" /\ pc # "done") => (files' = files /\ disk' = disk)
    /\ Holds(cue_path(Disc))' # Holds(cue_path(Disc)) =>
          /\ pc = "done"
          /\ Holds(cue_path(Disc))' = <<TRUE, result>>

\* C26: while the conversion runs and when it fails no file is created or
\* changed, the cue file changes only by a write that starts after the
\* conversion returned its text, and after any number of calls that all ended
\* in a conversion failure the cue file is as it was published, with no
\* temporary beside it.
C26_CueUntouchedOnFailure ==
    /\ [](OnlyConversionFailures =>
            /\ Holds(cue_path(Disc)) \in {<<FALSE, "">>, <<TRUE, OldCue>>}
            /\ NoCueTemporary)
    /\ [][CueAfterConversion]_vars

\* two calls in a row ended in a conversion failure and the cue file
\* published before them is still there
C26_Witness ==
    /\ rip.ended = <<"conversion failed", "conversion failed">>
    /\ rip.pc = "crashed"
    /\ pc = "failed"
    /\ Holds(cue_path(Disc)) = <<TRUE, OldCue>>

\* the steps this call of rip_one_disc has completed begin with the TOC read
TocRead == rip.events # << >> /\ rip.events[1] = "toc"

\* one step of the driver keeps the order of rip_one_disc
MarkerLast ==
    /\ Holds(url_path(Disc))' # Holds(url_path(Disc)) =>
          /\ rip.events = <<"toc", "cue", "wav">>
          /\ Renames(RipProc)
          /\ Holds(url_path(Disc))' = <<TRUE, submission_url \o "\n">>
    /\ Holds(cue_path(Disc))' # Holds(cue_path(Disc)) =>
          /\ rip.events = <<"toc">>
          /\ Renames(RipProc)
    /\ (files' # files \/ disk' # disk) => TocRead'
    /\ (rip.pc = "start" /\ url_path(Disc) \in DOMAIN files) =>
          /\ rip'.pc = "end"
          /\ UNCHANGED <<files, disk, conversion>>

\* C29: the marker changes only by the rename that ends a call in which the
\* TOC read succeeded, then the cue file was written, then the rip succeeded;
\* the cue file changes only after a successful TOC read; a call whose TOC
\* read failed changes no file; a call whose rip failed has ended without
\* touching the marker; a call that finds the marker goes to its end without
\* reading the TOC or changing any file.
C29_MarkerOrder ==
    /\ [](rip.pc = "end" =>
            rip.events \in {<<"skip">>, << >>, <<"toc", "cue">>, <<"toc", "cue", "wav", "url">>})
    /\ [][MarkerLast]_vars

\* a call has read the TOC, written the cue file, ripped and written the marker
C29_Witness ==
    /\ rip.pc = "end"
    /\ rip.events = <<"toc", "cue", "wav", "url">>
    /\ Holds(url_path(Disc)) = <<TRUE, submission_url \o "\n">>
    /\ Holds(cue_path(Disc)) = <<TRUE, result>>
    /\ wav_path(Disc) \in DOMAIN files

-----------------------------------------------------------------------------
(* The splitter and the silence offset                                     *)

\* make_cuesheet has just split the records, or failed for want of a group
SplitDone ==
    \/ pc = "loop" /\ track = 0
    \/ pc = "failed" /\ err.kind = "IndexError"

\* C27: the groups split_by_track returns, put end to end, are the records it
\* was given; no group is empty; every group but the first begins with a
\* record starting with 'TRACK '; and no record after the first of a group
\* starts with 'TRACK '.
C27_SplitIsPartition ==
    SplitDone =>
        LET groups == split_by_track(parts)
        IN  /\ flatten(groups) = parts
            /\ tracks = tokenise(groups)
            /\ \A i \in 1..Len(groups) :
                  /\ groups[i] # << >>
                  /\ i > 1 => startswith(groups[i][1], "TRACK ")
                  /\ \A j \in 2..Len(groups[i]) : ~startswith(groups[i][j], "TRACK ")

\* the records were split into a header group and two track groups of
\* several records each
C27_Witness ==
    /\ SplitDone
    /\ Len(split_by_track(parts)) = 3
    /\ ~startswith(parts[1], "TRACK ")
    /\ Len(split_by_track(parts)[2]) > 1
    /\ Len(split_by_track(parts)[3]) > 2

\* group k is handled as an audio track and has one SILENCE record
CarriesSilence(k) == k >= 1 /\ IsAudio(k) /\ NumRecs(Group(k), "SILENCE") = 1

SilenceOf(k) == Frames(TheRec(Group(k), "SILENCE")[2])

\* one step of make_cuesheet, seen from silence_offset
SilenceStep ==
    /\ (pc = "make" /\ pc' = "loop") => silence_offset' = "00:00:00"
    /\ pc = "loop" =>
          /\ Frames(silence_offset') >= Frames(silence_offset)
          /\ silence_offset' # silence_offset =>
                /\ CarriesSilence(track)
                /\ Frames(silence_offset') = Frames(silence_offset) + SilenceOf(track)
          /\ (track' = track + 1 /\ CarriesSilence(track)) =>
                Frames(silence_offset') = Frames(silence_offset) + SilenceOf(track)
          /\ (track < Len(tracks) /\ (track = 0 \/ IsMode1(track))) =>
                silence_offset' = silence_offset

-----------------------------------------------------------------------------
(* get after puts                                                          *)

Got == last_call.op = "get"

PutBefore == Got /\ last_call.key \in DOMAIN puts

\* what the last completed put of the key lets this get have
Covered ==
    /\ PutBefore
    /\ frozenset(last_call.includes) \subseteq puts[last_call.key].includes
    /\ \/ last_call.after.none
       \/ puts[last_call.key].timestamp >= last_call.after.val

OneEntry(key) ==
    Len(select_where(db.objects, key[1], key[2]))
        = IF key \in DOMAIN puts THEN 1 ELSE 0

\* C30: a get returns the object of the last completed put of its (type, id)
\* when every required include is in the include set of that put and after
\* is None or not later than the stored timestamp, and None otherwise; the
\* objects table holds one row for a (type, id) that was put, however often.
C30_GetAfterPuts ==
    /\ Got => last_call.returned =
                  IF Covered THEN puts[last_call.key].obj ELSE PyNone
    /\ \A key \in Keys : OneEntry(key)

\* a get with includes and after is answered from a row that replaced an
\* earlier row of the same (type, id)
C30_Witness ==
    /\ Got
    /\ Covered
    /\ last_call.returned # PyNone
    /\ last_call.includes # << >>
    /\ ~last_call.after.none
    /\ Len(db.objects) = 1
    /\ db.objects[1].inclusion_id = 2

====
